---- MODULE Spec2Model ----
(***************************************************************************)
(* Model of the quiz backend (YiliZh/quiz680): the spaced-repetition       *)
(* review scheduler (api/exam_history.py), the answer submission and exam  *)
(* session handlers (api/questions.py, api/exam_history.py), the uploads   *)
(* and the chapter segmenter (api/uploads.py, services/pdf.py), the        *)
(* question generators and the websocket connection manager (services/).   *)
(*                                                                         *)
(* Tables are functions from the autoincrement primary key to the row.     *)
(* Columns that no handler modelled here reads (created_at, updated_at,    *)
(* started_at) are left out of the rows.                                   *)
(* Time is an integer number of clock ticks; Day is the number of ticks in *)
(* timedelta(days=1).  A handler that reads the clock twice may see the    *)
(* clock advance between the two readings.                                 *)
(***************************************************************************)
EXTENDS Integers, Sequences, FiniteSets, TLC

\* ---------------------------------------------------------------- bounds
MaxTime == 2        \* the clock stops advancing at this tick
MaxDrift == 1       \* largest clock advance between two readings in one handler
MaxRecId == 2       \* review_recommendations rows ever inserted
MaxSessionId == 2   \* exam_sessions rows ever inserted
MaxAttemptId == 2   \* question_attempts rows ever inserted
MaxBatch == 2       \* longest question_ids list of one batch
MaxScore == 1       \* largest score / total_questions a client posts
MaxReq == 2         \* concurrent submit_answer requests
SmallRecId == 1     \* review_recommendations rows when every handler runs
SmallSessionId == 1 \* exam_sessions rows when every handler runs
SmallAttemptId == 1 \* question_attempts rows when every handler runs
SmallScore == 0     \* largest posted score / total when every handler runs
SmallTime == 1      \* last clock tick when every handler runs
SmallBatch == 1     \* longest batch when every handler runs
MaxPages == 2       \* pages of an uploaded document
MaxUploads == 1     \* uploads a user creates
MaxGraded == 2      \* attempts and sessions stored when the grader is exercised
MaxSockets == 3     \* websockets ever opened
MaxSends == 2       \* messages sent to one websocket
MaxCount == 2       \* largest num_questions asked of a generator
MaxConcepts == 4    \* concepts found in a chapter
MaxSentences == 5   \* sentences of a chapter
MaxBlocks == 2      \* question blocks in a response of the language model
MaxStored == 1      \* generated questions stored before the last generate request

\* ------------------------------------------------------- program constants
Day == 2            \* timedelta(days=1), in clock ticks
NULL == 0 - 1       \* SQL NULL / Python None for a timestamp or a row id

Users == 1..2
Chapters == 1..2
Requests == 1..MaxReq

\* Strings are sequences of one-character strings so that lower() and ord()
\* act on them as they do in Python.
sA == <<"A">>
sB == <<"B">>
sLowA == <<"a">>
sLowB == <<"b">>
sParis == <<"P", "a", "r", "i", "s">>
sLondon == <<"L", "o", "n", "d", "o", "n">>
sRome == <<"R", "o", "m", "e">>
sBerlin == <<"B", "e", "r", "l", "i", "n">>
sTrue == <<"T", "r", "u", "e">>
sFalse == <<"F", "a", "l", "s", "e">>
sE == <<"E">>
sLowTrue == <<"t", "r", "u", "e">>
sLowFalse == <<"f", "a", "l", "s", "e">>

\* The persisted questions (rows of the questions table; never mutated by
\* the handlers modelled here).
QuestionRows ==
    (1 :> [question_type |-> "multiple_choice",
           options |-> <<sParis, sLondon, sRome, sBerlin>>,
           correct_answer |-> sA, chapter_id |-> 2])
    @@
    (2 :> [question_type |-> "true_false",
           options |-> <<sTrue, sFalse>>,
           correct_answer |-> sTrue, chapter_id |-> 1])
    @@
    (3 :> [question_type |-> "short_answer",
           options |-> <<>>,
           correct_answer |-> sRome, chapter_id |-> 1])
    @@
    (4 :> [question_type |-> "multiple_choice",
           options |-> <<sParis, sLondon, sRome, sBerlin>>,
           correct_answer |-> sE, chapter_id |-> 2])

Questions == DOMAIN QuestionRows

\* The questions the session and review specifications submit and recommend,
\* and a question id with no row
QuizQuestions == 1..2
MissingQuestion == Cardinality(Questions) + 1

\* Submitted answers (AnswerSubmitSchema.chosen_answer)
Answers == {sA, sB}

VARIABLES
    now,            \* the wall clock (datetime.utcnow())
    recs,           \* review_recommendations: id -> row
    nextRecId,      \* next autoincrement id of review_recommendations
    sessions,       \* exam_sessions: id -> row
    nextSessionId,  \* next autoincrement id of exam_sessions
    attempts,       \* question_attempts: id -> row
    nextAttemptId,  \* next autoincrement id of question_attempts
    reqs,           \* in-flight submit_answer requests: request -> locals
    uploads,        \* uploads: id -> row
    nextUploadId,   \* next autoincrement id of uploads
    chapters,       \* chapters: id -> row
    nextChapterId,  \* next autoincrement id of chapters
    disk,           \* the upload directory: file name -> document stored there
    drafts,         \* the last run of a question generator: its input and its result
    db_questions,   \* the questions rows committed by the generate endpoints
    active_connections, \* ConnectionManager: upload id -> list of websockets
    broken,         \* the websockets whose send_text raises
    received,       \* websocket -> number of log messages delivered to it
    last            \* the last handler run: operation, caller, argument, HTTP status

vars == <<now, recs, nextRecId, sessions, nextSessionId, attempts,
          nextAttemptId, reqs, uploads, nextUploadId, chapters, nextChapterId,
          disk, drafts, db_questions, active_connections, broken, received, last>>

dbVars == <<recs, nextRecId, sessions, nextSessionId, attempts, nextAttemptId>>

docVars == <<uploads, nextUploadId, chapters, nextChapterId, disk>>

genVars == <<drafts, db_questions>>

wsVars == <<active_connections, broken, received>>

\* ------------------------------------------------------------ helpers
\* Python's str.lower() and ord() on the characters the model uses
UpperChars == <<"A", "B", "C", "D", "E", "F", "L", "P", "R", "T">>
LowerChars == <<"a", "b", "c", "d", "e", "f", "l", "p", "r", "t">>
OrdUpper == <<65, 66, 67, 68, 69, 70, 76, 80, 82, 84>>

IndexOf(c, chars) == CHOOSE i \in DOMAIN chars : chars[i] = c

IsUpper(c) == \E i \in DOMAIN UpperChars : UpperChars[i] = c

LowerChar(c) == IF IsUpper(c) THEN LowerChars[IndexOf(c, UpperChars)] ELSE c

Lower(s) == [i \in DOMAIN s |-> LowerChar(s[i])]

Ord(c) ==
    IF IsUpper(c) THEN OrdUpper[IndexOf(c, UpperChars)]
    ELSE IF \E i \in DOMAIN LowerChars : LowerChars[i] = c
         THEN OrdUpper[IndexOf(c, LowerChars)] + 32
         ELSE 0

\* A table without row id: db.delete(row)
DeleteRow(table, id) == [i \in DOMAIN table \ {id} |-> table[i]]

\* A table with one more row: db.add(row) under the next autoincrement id
AddRow(table, id, row) == [i \in DOMAIN table \cup {id} |-> IF i = id THEN row ELSE table[i]]

\* The persistence layer accepts an exam_sessions row whose completed_at is
\* NULL (the table's DDL is not part of the sources; the handlers filter on
\* completed_at == None, so such rows are stored).
CompletedAtNullable == TRUE

\* The query inside a handler's loop sees the rows that the same request
\* added earlier (Session autoflush; the session factory is not part of the
\* sources).
SessionAutoflush == TRUE

\* ------------------------------------------------------------ Review Scheduler
\* (mutant) the older interval table of the review_stage column's comment:
\* 1 day, 7 days, 16 days, 35 days
IntervalDaysOld(stage) ==
    CASE stage = 1 -> 1
      [] stage = 2 -> 7
      [] stage = 3 -> 16
      [] stage = 4 -> 35
      [] OTHER -> 0

\* complete_review's if/elif chain: the delay, in days, after a stage
IntervalDays(stage) ==
    CASE stage = 1 -> 1
      [] stage = 2 -> 3
      [] stage = 3 -> 7
      [] stage = 4 -> 14
      [] stage = 5 -> 30
      [] OTHER -> 0

\* (mutant) a chain with one more branch, so that stage 6 is stored
DefinedStagesWide == 1..6

\* The stages complete_review's if/elif chain has a branch for; any other
\* stage falls to the else branch, which deletes the row
DefinedStages == 1..5

\* (mutant) a completion that advances two stages
NextStageTwo(stage) == stage + 2

\* recommendation.review_stage += 1
NextStage(stage) == stage + 1

\* (mutant) a lookup by id alone, without the filter on the user
OwnedRecAny(u, id) == id \in DOMAIN recs

\* The row the ownership-filtered query returns: id and user both match
OwnedRec(u, id) == id \in DOMAIN recs /\ recs[id].user_id = u

Result(op, u, id, status) ==
    [op |-> op, user |-> u, id |-> id, status |-> status, qids |-> <<>>]

\* POST /review-recommendations/{id}/complete.  d is the clock's advance
\* between the utcnow() of last_reviewed_at and the utcnow() of next_review_at.
complete_review(u, id, d) ==
    /\ d >= 0
    /\ IF ~OwnedRec(u, id)
       THEN /\ d = 0
            /\ last' = Result("complete_review", u, id, 404)
            /\ UNCHANGED <<genVars, wsVars, docVars, now, dbVars, reqs>>
       ELSE LET stage == NextStage(recs[id].review_stage)
                t1 == now
                t2 == now + d
            IN  /\ IF stage \in DefinedStages
                   THEN /\ recs' = [recs EXCEPT ![id] =
                                      [@ EXCEPT !.review_stage = stage,
                                                !.last_reviewed_at = t1,
                                                !.next_review_at = t2 + IntervalDays(stage) * Day]]
                        /\ now' = t2
                   ELSE /\ d = 0
                        /\ recs' = DeleteRow(recs, id)
                        /\ now' = now
                /\ last' = Result("complete_review", u, id, 200)
                /\ UNCHANGED <<genVars, wsVars, docVars, nextRecId, sessions, nextSessionId, attempts,
                               nextAttemptId, reqs>>

\* (mutant) a skip that only removes a recommendation that is due
skip_review_due(u, id) ==
    IF ~OwnedRec(u, id)
    THEN /\ last' = Result("skip_review", u, id, 404)
         /\ UNCHANGED <<genVars, wsVars, docVars, now, dbVars, reqs>>
    ELSE /\ recs' = IF recs[id].next_review_at <= now THEN DeleteRow(recs, id) ELSE recs
         /\ last' = Result("skip_review", u, id, 200)
         /\ UNCHANGED <<genVars, wsVars, docVars, now, nextRecId, sessions, nextSessionId, attempts,
                        nextAttemptId, reqs>>

\* POST /review-recommendations/{id}/skip
skip_review(u, id) ==
    IF ~OwnedRec(u, id)
    THEN /\ last' = Result("skip_review", u, id, 404)
         /\ UNCHANGED <<genVars, wsVars, docVars, now, dbVars, reqs>>
    ELSE /\ recs' = DeleteRow(recs, id)
         /\ last' = Result("skip_review", u, id, 200)
         /\ UNCHANGED <<genVars, wsVars, docVars, now, nextRecId, sessions, nextSessionId, attempts,
                        nextAttemptId, reqs>>

\* The rows the "existing" query of create_review_recommendations can see
\* while the batch is being processed: the committed rows, and the rows the
\* batch has added so far when the session autoflushes.
VisibleRecs(table) == IF SessionAutoflush THEN DOMAIN table ELSE DOMAIN recs

\* (mutant) an "existing" query that only finds recommendations that are due
ExistingDue(table, u, q, t) ==
    {i \in VisibleRecs(table) : /\ table[i].user_id = u
                                /\ table[i].question_id = q
                                /\ table[i].next_review_at <= t}

\* The "existing" query: the caller's recommendations for the question
Existing(table, u, q, t) ==
    {i \in VisibleRecs(table) : table[i].user_id = u /\ table[i].question_id = q}

\* (mutant) a new recommendation that is due at once
NewRecDueNow(u, q, t) ==
    [user_id |-> u, question_id |-> q, last_reviewed_at |-> t,
     next_review_at |-> t, review_stage |-> 1]

\* The row created for a question the caller has no recommendation for
NewRec(u, q, t) ==
    [user_id |-> u, question_id |-> q, last_reviewed_at |-> t,
     next_review_at |-> t + 1 * Day, review_stage |-> 1]

\* One pass of the loop over data.question_ids.  The result is the set of
\* possible final [recs, next] pairs: .first() has no ORDER BY, so with
\* several matching rows any of them may be the one updated.
RECURSIVE CreateLoop(_, _, _, _, _)
CreateLoop(table, nid, u, qids, t) ==
    IF qids = <<>>
    THEN {[recs |-> table, next |-> nid]}
    ELSE LET q == Head(qids)
             existing == Existing(table, u, q, t)
         IN  IF existing # {}
             THEN UNION {CreateLoop([table EXCEPT ![e] =
                                       [@ EXCEPT !.last_reviewed_at = t,
                                                 !.review_stage = 1,
                                                 !.next_review_at = t + 1 * Day]],
                                    nid, u, Tail(qids), t) : e \in existing}
             ELSE CreateLoop(AddRow(table, nid, NewRec(u, q, t)),
                             nid + 1, u, Tail(qids), t)

\* The exam session exists and belongs to the caller
OwnedSession(u, sid) == sid \in DOMAIN sessions /\ sessions[sid].user_id = u

\* POST /review-recommendations (batch create for failed questions)
create_review_recommendations(u, sid, qids) ==
    IF ~OwnedSession(u, sid)
    THEN /\ last' = Result("create_review_recommendations", u, sid, 404)
         /\ UNCHANGED <<genVars, wsVars, docVars, now, dbVars, reqs>>
    ELSE \E r \in CreateLoop(recs, nextRecId, u, qids, now) :
            /\ recs' = r.recs
            /\ nextRecId' = r.next
            /\ last' = [Result("create_review_recommendations", u, sid, 200)
                          EXCEPT !.qids = qids]
            /\ UNCHANGED <<genVars, wsVars, docVars, now, sessions, nextSessionId, attempts,
                           nextAttemptId, reqs>>

\* ------------------------------------------------------------ Answer Grader
\* Line 90: the index of the correct option, ord(correct_answer) - ord('A')
correct_index(question) == Ord(question.correct_answer[1]) - Ord("A")

\* Line 91: the stored letter does not index an option
IndexOutOfRange(question) ==
    correct_index(question) < 0 \/ correct_index(question) >= Len(question.options)

\* (mutant) the letter comparison ignores case
LetterOrTextAnyCase(question, chosen_answer) ==
    \/ Lower(chosen_answer) = Lower(question.correct_answer)
    \/ chosen_answer = question.options[correct_index(question) + 1]

\* Lines 97-100: letter match or text match
LetterOrText(question, chosen_answer) ==
    \/ chosen_answer = question.correct_answer
    \/ chosen_answer = question.options[correct_index(question) + 1]

\* (mutant) the letters a and b are not mapped to true and false
MapLetterNone(lowered) == lowered

\* Lines 107-109: 'a' stands for 'true' and 'b' for 'false'
MapLetter(lowered) ==
    IF lowered \in {sLowA, sLowB}
    THEN (IF lowered = sLowA THEN sLowTrue ELSE sLowFalse)
    ELSE lowered

\* Lines 104-111: both sides lower-cased, letters mapped, then compared
TrueFalseMatch(question, chosen_answer) ==
    MapLetter(Lower(chosen_answer)) = Lower(question.correct_answer)

\* (mutant) an out-of-range letter is graded as a wrong answer
GradeErrorAsWrong(question) == FALSE

\* Lines 90-92: the 500 "Invalid correct answer format" (or the TypeError of
\* ord() on a string that is not one character) of a multiple_choice question
GradeError(question) ==
    /\ question.question_type = "multiple_choice"
    /\ \/ Len(question.correct_answer) # 1
       \/ IndexOutOfRange(question)

\* submit_answer's verdict (lines 86-111); is_correct stays False for every
\* question type other than multiple_choice and true_false
Grade(question, chosen_answer) ==
    IF GradeError(question)
    THEN [error |-> TRUE, is_correct |-> FALSE]
    ELSE IF question.question_type = "multiple_choice"
    THEN [error |-> FALSE,
          is_correct |-> IF IndexOutOfRange(question) THEN FALSE
                         ELSE LetterOrText(question, chosen_answer)]
    ELSE IF question.question_type = "true_false"
    THEN [error |-> FALSE, is_correct |-> TrueFalseMatch(question, chosen_answer)]
    ELSE [error |-> FALSE, is_correct |-> FALSE]

\* ------------------------------------------------------------ Exam sessions
\* The active-session query: same user, same chapter, completed_at IS NULL
ActiveSessions(u, c) ==
    {s \in DOMAIN sessions : /\ sessions[s].user_id = u
                             /\ sessions[s].chapter_id = c
                             /\ sessions[s].completed_at = NULL}

\* (mutant) the query compares the session's chapter with the question's id
SubmitActiveByQuestionId(u, q) == ActiveSessions(u, q)

\* submit_answer's "get" of get-or-create: the caller's active sessions for
\* the question's chapter
SubmitActive(u, q) == ActiveSessions(u, QuestionRows[q].chapter_id)

\* The session submit_answer creates when the query found none
NewSession(u, c) ==
    [user_id |-> u, chapter_id |-> c, score |-> 0, total_questions |-> 0,
     correct_answers |-> 0, completed_at |-> NULL]

NewAttempt(u, q, sid, chosen_answer, is_correct) ==
    [user_id |-> u, question_id |-> q, exam_session_id |-> sid,
     chosen_answer |-> chosen_answer, is_correct |-> is_correct]

\* POST /{question_id}/answer, run without interleaving
submit_answer(u, q, ans) ==
    IF q \notin Questions
    THEN /\ last' = Result("submit_answer", u, q, 404)
         /\ UNCHANGED <<genVars, wsVars, docVars, now, dbVars, reqs>>
    ELSE LET question == QuestionRows[q]
             g == Grade(question, ans)
             active == SubmitActive(u, q)
         IN  IF g.error \/ (active = {} /\ ~CompletedAtNullable)
             THEN /\ last' = Result("submit_answer", u, q, 500)
                  /\ UNCHANGED <<genVars, wsVars, docVars, now, dbVars, reqs>>
             ELSE /\ IF active = {}
                     THEN /\ sessions' = AddRow(sessions, nextSessionId,
                                                NewSession(u, question.chapter_id))
                          /\ nextSessionId' = nextSessionId + 1
                          /\ attempts' = AddRow(attempts, nextAttemptId,
                                 NewAttempt(u, q, nextSessionId, ans, g.is_correct))
                     ELSE /\ \E sid \in active :
                                attempts' = AddRow(attempts, nextAttemptId,
                                    NewAttempt(u, q, sid, ans, g.is_correct))
                          /\ UNCHANGED <<sessions, nextSessionId>>
                  /\ nextAttemptId' = nextAttemptId + 1
                  /\ last' = Result("submit_answer", u, q, 200)
                  /\ UNCHANGED <<genVars, wsVars, docVars, now, recs, nextRecId, reqs>>

\* The attempts of one exam session
SessionAttempts(sid) == {a \in DOMAIN attempts : attempts[a].exam_session_id = sid}

\* (mutant) completing a session marks its user's attempts as wrong
complete_exam_session_regrade(u, c) ==
    /\ ActiveSessions(u, c) # {}
    /\ \E sid \in ActiveSessions(u, c) :
          /\ sessions' = [sessions EXCEPT ![sid].completed_at = now]
          /\ last' = Result("complete_exam_session", u, sid, 200)
    /\ attempts' = [a \in DOMAIN attempts |-> [attempts[a] EXCEPT !.is_correct = FALSE]]
    /\ UNCHANGED <<genVars, wsVars, docVars, now, recs, nextRecId, nextSessionId, nextAttemptId, reqs>>

\* POST /complete-session/{chapter_id}
complete_exam_session(u, c) ==
    IF ActiveSessions(u, c) = {}
    THEN /\ last' = Result("complete_exam_session", u, c, 404)
         /\ UNCHANGED <<genVars, wsVars, docVars, now, dbVars, reqs>>
    ELSE \E sid \in ActiveSessions(u, c) :
            LET total_questions == Cardinality(SessionAttempts(sid))
                correct_answers ==
                    Cardinality({a \in SessionAttempts(sid) : attempts[a].is_correct})
            IN  /\ sessions' = [sessions EXCEPT ![sid] =
                                  [@ EXCEPT !.total_questions = total_questions,
                                            !.correct_answers = correct_answers,
                                            !.score = correct_answers,
                                            !.completed_at = now]]
                /\ last' = Result("complete_exam_session", u, sid, 200)
                /\ UNCHANGED <<genVars, wsVars, docVars, now, recs, nextRecId, nextSessionId, attempts,
                               nextAttemptId, reqs>>

\* POST /sessions: the client reports a finished quiz.  The row is committed
\* before the response is built; building the response then fails on the
\* name QuestionAttempt, which exam_history.py does not import.
create_exam_session(u, c, score, total_questions) ==
    /\ sessions' = AddRow(sessions, nextSessionId,
                          [user_id |-> u, chapter_id |-> c, score |-> score,
                           total_questions |-> total_questions,
                           correct_answers |-> score, completed_at |-> now])
    /\ nextSessionId' = nextSessionId + 1
    /\ last' = Result("create_exam_session", u, nextSessionId, 500)
    /\ UNCHANGED <<genVars, wsVars, docVars, now, recs, nextRecId, attempts, nextAttemptId, reqs>>

\* A request slot with no handler running
IdleRequest == [pc |-> "idle", user |-> 0, question |-> 0, chosen_answer |-> <<>>,
                is_correct |-> FALSE, session |-> NULL]

\* ---- submit_answer as interleavable steps.  Each step is one database
\* round trip of the handler; reqs[r] holds the handler's local variables.

\* Lines 82-118: load the question, grade, run the active-session query
submit_query(r, u, q, ans) ==
    /\ reqs[r].pc = "idle"
    /\ IF q \notin Questions
       THEN /\ last' = Result("submit_answer", u, q, 404)
            /\ UNCHANGED <<genVars, wsVars, docVars, now, dbVars, reqs>>
       ELSE LET g == Grade(QuestionRows[q], ans)
            IN  IF g.error
                THEN /\ last' = Result("submit_answer", u, q, 500)
                     /\ UNCHANGED <<genVars, wsVars, docVars, now, dbVars, reqs>>
                ELSE /\ \/ /\ SubmitActive(u, q) = {}
                           /\ reqs' = [reqs EXCEPT ![r] =
                                  [pc |-> "create_session", user |-> u, question |-> q,
                                   chosen_answer |-> ans, is_correct |-> g.is_correct,
                                   session |-> NULL]]
                        \/ \E sid \in SubmitActive(u, q) :
                              reqs' = [reqs EXCEPT ![r] =
                                  [pc |-> "create_attempt", user |-> u, question |-> q,
                                   chosen_answer |-> ans, is_correct |-> g.is_correct,
                                   session |-> sid]]
                     /\ last' = Result("submit_answer:query", u, q, 0)
                     /\ UNCHANGED <<genVars, wsVars, docVars, now, dbVars>>

\* (mutant) a create step that looks again and reuses a session that
\* appeared since the query
submit_create_session_recheck(r) ==
    /\ reqs[r].pc = "create_session"
    /\ LET u == reqs[r].user
           q == reqs[r].question
       IN  IF SubmitActive(u, q) = {}
           THEN /\ sessions' = AddRow(sessions, nextSessionId,
                                      NewSession(u, QuestionRows[q].chapter_id))
                /\ nextSessionId' = nextSessionId + 1
                /\ reqs' = [reqs EXCEPT ![r].pc = "create_attempt",
                                        ![r].session = nextSessionId]
           ELSE /\ \E sid \in SubmitActive(u, q) :
                      reqs' = [reqs EXCEPT ![r].pc = "create_attempt",
                                          ![r].session = sid]
                /\ UNCHANGED <<sessions, nextSessionId>>
    /\ last' = Result("submit_answer:create_session", reqs[r].user, reqs[r].question, 0)
    /\ UNCHANGED <<genVars, wsVars, docVars, now, recs, nextRecId, attempts, nextAttemptId>>

\* Lines 120-132: the query found no active session, insert one and commit
submit_create_session(r) ==
    /\ reqs[r].pc = "create_session"
    /\ IF CompletedAtNullable
       THEN /\ sessions' = AddRow(sessions, nextSessionId,
                   NewSession(reqs[r].user, QuestionRows[reqs[r].question].chapter_id))
            /\ nextSessionId' = nextSessionId + 1
            /\ reqs' = [reqs EXCEPT ![r].pc = "create_attempt",
                                    ![r].session = nextSessionId]
            /\ last' = Result("submit_answer:create_session",
                              reqs[r].user, reqs[r].question, 0)
       ELSE /\ reqs' = [reqs EXCEPT ![r] = IdleRequest]
            /\ last' = Result("submit_answer", reqs[r].user, reqs[r].question, 500)
            /\ UNCHANGED <<sessions, nextSessionId>>
    /\ UNCHANGED <<genVars, wsVars, docVars, now, recs, nextRecId, attempts, nextAttemptId>>

\* Lines 134-147: insert the attempt, commit, respond
submit_create_attempt(r) ==
    /\ reqs[r].pc = "create_attempt"
    /\ attempts' = AddRow(attempts, nextAttemptId,
                          NewAttempt(reqs[r].user, reqs[r].question, reqs[r].session,
                                     reqs[r].chosen_answer, reqs[r].is_correct))
    /\ nextAttemptId' = nextAttemptId + 1
    /\ reqs' = [reqs EXCEPT ![r] = IdleRequest]
    /\ last' = Result("submit_answer", reqs[r].user, reqs[r].question, 200)
    /\ UNCHANGED <<genVars, wsVars, docVars, now, recs, nextRecId, sessions, nextSessionId>>

\* The wall clock advances
Tick ==
    /\ now' = now + 1
    /\ last' = Result("tick", 0, 0, 0)
    /\ UNCHANGED <<genVars, wsVars, docVars, dbVars, reqs>>

\* ------------------------------------------------------------ Chapter Segmenter
\* Character classes of the regular expressions of pdf.py
AsciiUpper == {"A", "B", "C", "D", "E", "F", "G", "H", "I", "J", "K", "L", "M",
               "N", "O", "P", "Q", "R", "S", "T", "U", "V", "W", "X", "Y", "Z"}
AsciiLower == {"a", "b", "c", "d", "e", "f", "g", "h", "i", "j", "k", "l", "m",
               "n", "o", "p", "q", "r", "s", "t", "u", "v", "w", "x", "y", "z"}
AsciiDigits == {"0", "1", "2", "3", "4", "5", "6", "7", "8", "9"}
Whitespace == {" "}
DashColon == {"-", ":"}

wChapter == <<"C", "h", "a", "p", "t", "e", "r">>
wCHAPTER == <<"C", "H", "A", "P", "T", "E", "R">>
wDocument == <<"D", "o", "c", "u", "m", "e", "n", "t">>

\* The value of F(v), with v computed once: a Python assignment
\* x = v followed by the code F that reads x
Bind(v, F(_)) == CHOOSE r \in {F(x) : x \in {v}} : TRUE

\* The position after the longest run of characters of class from position i
Run(s, i, class) ==
    CHOOSE j \in i..(Len(s) + 1) :
        /\ \A k \in i..(j - 1) : s[k] \in class
        /\ j = Len(s) + 1 \/ s[j] \notin class

\* The position before the longest run of characters of class that ends at i
RunBack(s, i, class) ==
    CHOOSE j \in 0..i :
        /\ \A k \in (j + 1)..i : s[k] \in class
        /\ j = 0 \/ s[j] \notin class

\* A regular expression is the sequence of its tokens: a literal word, one
\* character of a class, class* and class+
Lit(word) == [kind |-> "lit", word |-> word]
One(class) == [kind |-> "one", class |-> class]
Star(class) == [kind |-> "star", class |-> class]
Plus(class) == [kind |-> "plus", class |-> class]

\* A token matched at position i of s gives the position after the match, or
\* NoMatch.  Every repetition in pdf.py is followed by a character outside
\* its class, so the greedy match is the only one.
NoMatch == 0

Step(token, s, i) ==
    IF token.kind = "lit"
    THEN IF /\ i + Len(token.word) - 1 <= Len(s)
            /\ SubSeq(s, i, i + Len(token.word) - 1) = token.word
         THEN i + Len(token.word) ELSE NoMatch
    ELSE IF token.kind = "one"
    THEN IF i <= Len(s) /\ s[i] \in token.class THEN i + 1 ELSE NoMatch
    ELSE IF token.kind = "star"
    THEN Run(s, i, token.class)
    ELSE IF Run(s, i, token.class) = i THEN NoMatch ELSE Run(s, i, token.class)

\* The tokens k.. of a pattern matched from position i of s
RECURSIVE Match(_, _, _, _)
Match(pattern, k, s, i) ==
    IF k > Len(pattern) THEN i
    ELSE Bind(Step(pattern[k], s, i),
              LAMBDA j : IF j = NoMatch THEN NoMatch ELSE Match(pattern, k + 1, s, j))

\* re.match(pattern, s): the position after the match at the start of s
MatchStart(pattern, s) == Match(pattern, 1, s, 1)

\* \s*[-:]*\s*
Separator == <<Star(Whitespace), Star(DashColon), Star(Whitespace)>>

\* ^(word)\s+\d+\s*[-:]*\s*
NumberedPrefix(word) == <<Lit(word), Plus(Whitespace), Plus(AsciiDigits)>> \o Separator

\* ^\d+\.
DigitsDot == <<Plus(AsciiDigits), One({"."})>>

\* ^[IVX]+\.
RomanDot == <<Plus({"I", "V", "X"}), One({"."})>>

\* ^[A-Z][a-z]+\s+\d+\s*[-:]*\s*
WordNumberPrefix ==
    <<One(AsciiUpper), Plus(AsciiLower), Plus(Whitespace), Plus(AsciiDigits)>> \o Separator

\* ^Clean\s+Code\s*[-:]*\s*
CleanCodePrefix ==
    <<Lit(<<"C", "l", "e", "a", "n">>), Plus(Whitespace), Lit(<<"C", "o", "d", "e">>)>>
        \o Separator

\* ^The\s+Elements\s+of\s+Style\s*[-:]*\s*
ElementsOfStylePrefix ==
    <<Lit(<<"T", "h", "e">>), Plus(Whitespace),
      Lit(<<"E", "l", "e", "m", "e", "n", "t", "s">>), Plus(Whitespace),
      Lit(<<"o", "f">>), Plus(Whitespace),
      Lit(<<"S", "t", "y", "l", "e">>)>> \o Separator

\* [A-Z][a-z]+
CapitalizedWord == <<One(AsciiUpper), Plus(AsciiLower)>>

\* str.strip()
Strip(s) == SubSeq(s, Run(s, 1, Whitespace), RunBack(s, Len(s), Whitespace))

\* str.isupper(): a cased character, and no lower-case one
IsUpperStr(s) ==
    /\ \E i \in DOMAIN s : s[i] \in AsciiUpper
    /\ \A i \in DOMAIN s : s[i] \notin AsciiLower

\* Lines 47-61: the header patterns
HeaderPatterns ==
    { NumberedPrefix(wChapter) \o <<One(AsciiUpper)>>,
      NumberedPrefix(wCHAPTER) \o <<One(AsciiUpper)>>,
      DigitsDot \o <<Plus(Whitespace)>> \o CapitalizedWord,
      RomanDot \o <<Plus(Whitespace)>> \o CapitalizedWord,
      CleanCodePrefix \o <<One(AsciiUpper)>>,
      ElementsOfStylePrefix \o <<One(AsciiUpper)>>,
      WordNumberPrefix \o <<One(AsciiUpper)>>,
      NumberedPrefix(<<"P", "a", "r", "t">>) \o <<One(AsciiUpper)>> }

is_chapter_header(line) ==
    Bind(Strip(line), LAMBDA text :
        IF Len(text) < 3 THEN FALSE
        ELSE IF \E pattern \in HeaderPatterns : MatchStart(pattern, text) # NoMatch THEN TRUE
        ELSE IF Len(text) > 100 THEN FALSE
        ELSE IF IsUpperStr(text) /\ Len(text) > 3 THEN TRUE
        ELSE MatchStart(DigitsDot \o <<Plus(Whitespace), One(AsciiUpper)>>, text) # NoMatch)

\* Lines 86-93: the prefixes removed from a header, in this order; the first
\* is the alternative (Chapter|CHAPTER)
TitlePrefixes ==
    << {NumberedPrefix(wChapter), NumberedPrefix(wCHAPTER)},
       {DigitsDot \o <<Star(Whitespace)>>},
       {RomanDot \o <<Star(Whitespace)>>},
       {WordNumberPrefix},
       {CleanCodePrefix},
       {ElementsOfStylePrefix} >>

\* re.sub of alternatives anchored at the start: the matched prefix is dropped
DropPrefix(s, alternatives) ==
    IF \E pattern \in alternatives : MatchStart(pattern, s) # NoMatch
    THEN SubSeq(s, MatchStart(CHOOSE pattern \in alternatives :
                                  MatchStart(pattern, s) # NoMatch, s), Len(s))
    ELSE s

\* The substitutions k.. of lines 86-93 applied to s
RECURSIVE DropPrefixes(_, _)
DropPrefixes(s, k) ==
    IF k > Len(TitlePrefixes) THEN s
    ELSE Bind(DropPrefix(s, TitlePrefixes[k]), LAMBDA t : DropPrefixes(t, k + 1))

\* re.sub(r'\s*[-:]*$', '', title)
DropSuffix(s) == SubSeq(s, 1, RunBack(s, RunBack(s, Len(s), DashColon), Whitespace))

extract_chapter_title(line) ==
    Bind(Strip(DropPrefixes(line, 1)), LAMBDA text :
        Bind(DropSuffix(DropPrefix(text, {<<Star(DashColon), Star(Whitespace)>>})),
             LAMBDA title :
                 IF title = <<>>
                 THEN <<"U", "n", "t", "i", "t", "l", "e", "d", " ",
                        "C", "h", "a", "p", "t", "e", "r">>
                 ELSE title))

\* str(n) for a natural number
RECURSIVE Str(_)
Str(n) ==
    LET digits == <<"0", "1", "2", "3", "4", "5", "6", "7", "8", "9">>
    IN  IF n < 10 THEN <<digits[n + 1]>>
        ELSE Str(n \div 10) \o <<digits[(n % 10) + 1]>>

\* A text is the sequence of its lines (text.split('\n')); the empty string
\* is the text of one empty line.
EmptyText == << <<>> >>

\* "\n".join(texts)
RECURSIVE Join(_)
Join(texts) ==
    IF texts = <<>> THEN EmptyText
    ELSE IF Len(texts) = 1 THEN texts[1]
    ELSE texts[1] \o Join(Tail(texts))

\* "\n".join(lines) of a list of single lines
JoinLines(lines) == IF lines = <<>> THEN EmptyText ELSE lines

\* bool(text.strip())
HasText(text) == \E i \in DOMAIN text : Strip(text[i]) # <<>>

\* current_title is None before the first header
NoTitle == <<>>

\* current_title or f"Chapter {chapter_number}"
TitleOr(current_title, chapter_number) ==
    IF current_title = NoTitle THEN wChapter \o <<" ">> \o Str(chapter_number)
    ELSE current_title

\* Chapter(upload_id=..., chapter_no=..., title=..., content=...); summary and
\* keywords are functions of the content and are left out.  The segmenter
\* keeps the chapters without the upload_id, which is the same for all of
\* them and is written when they are stored.
NewChapter(chapter_no, title, content) ==
    [chapter_no |-> chapter_no, title |-> title, content |-> content]

\* Lines 147-152: the locals of process_pdf; logs keeps the numbers of the
\* "Creating chapter" entries of processing_logs
SegmenterStart ==
    [chapters |-> <<>>, current_chapter |-> <<>>, chapter_number |-> 1,
     all_text |-> <<>>, current_title |-> NoTitle, page_buffer |-> <<>>,
     logs |-> <<>>]

\* Lines 174-178 and 212-215: the buffered lines become chapter content
FlushBuffer(st) ==
    IF st.page_buffer = <<>> THEN st
    ELSE IF HasText(JoinLines(st.page_buffer))
         THEN [st EXCEPT !.current_chapter = Append(@, JoinLines(st.page_buffer))]
         ELSE st

\* (mutant) the chapter counter is not advanced after a chapter is saved
SaveChapterSameNumber(st) ==
    [st EXCEPT !.chapters = Append(@, NewChapter(st.chapter_number,
                                TitleOr(st.current_title, st.chapter_number),
                                Join(st.current_chapter))),
               !.logs = Append(@, st.chapter_number)]

\* Lines 184-195: the previous chapter is completed
SaveChapter(st) ==
    [st EXCEPT !.chapters = Append(@, NewChapter(st.chapter_number,
                                TitleOr(st.current_title, st.chapter_number),
                                Join(st.current_chapter))),
               !.chapter_number = @ + 1,
               !.logs = Append(@, st.chapter_number)]

\* Lines 172-199: a header line
HeaderLine(st, line) ==
    Bind([FlushBuffer(st) EXCEPT !.page_buffer = <<>>], LAMBDA flushed :
        LET saved == IF flushed.current_chapter = <<>> THEN flushed
                     ELSE [(IF HasText(Join(flushed.current_chapter))
                            THEN SaveChapter(flushed)
                            ELSE flushed) EXCEPT !.current_chapter = <<>>]
        IN  [saved EXCEPT !.current_title = extract_chapter_title(line)])

\* Lines 200-205: a line that is not a header
BodyLine(st, line) ==
    IF st.current_chapter # <<>>
    THEN [st EXCEPT !.current_chapter = Append(@, <<line>>)]
    ELSE [st EXCEPT !.page_buffer = Append(@, line)]

\* Lines 169-205: one line of a page
ScanLine(st, line) ==
    IF is_chapter_header(Strip(line))
    THEN HeaderLine(st, Strip(line))
    ELSE BodyLine(st, Strip(line))

\* Lines 168-205: the lines of one page, from line number k on
RECURSIVE ScanLines(_, _, _)
ScanLines(st, lines, k) ==
    IF k > Len(lines) THEN st
    ELSE Bind(ScanLine(st, lines[k]), LAMBDA next : ScanLines(next, lines, k + 1))

\* Lines 154-209: pages page_num..last_page; a page without text is skipped
RECURSIVE ScanPages(_, _, _, _)
ScanPages(st, file, page_num, last_page) ==
    IF page_num > last_page THEN st
    ELSE LET text == file[page_num]
         IN  Bind(IF text = EmptyText THEN st
                  ELSE Bind([st EXCEPT !.all_text = Append(@, text)],
                            LAMBDA read : ScanLines(read, text, 1)),
                  LAMBDA next : ScanPages(next, file, page_num + 1, last_page))

\* Lines 211-231: the remaining content and the last chapter
LastChapter(st) ==
    Bind(FlushBuffer(st), LAMBDA flushed :
        IF flushed.current_chapter # <<>> /\ HasText(Join(flushed.current_chapter))
        THEN SaveChapter(flushed)
        ELSE flushed)

\* (mutant) the whole text becomes a chapter even when it is blank
FallbackBlank(st) ==
    IF st.chapters = <<>>
    THEN [st EXCEPT !.chapters = <<NewChapter(1, wDocument, Join(st.all_text))>>]
    ELSE st

\* Lines 233-246: no chapter was found, the whole text becomes one
\* chapter titled "Document"
Fallback(st) ==
    IF st.chapters = <<>> /\ HasText(Join(st.all_text))
    THEN [st EXCEPT !.chapters = <<NewChapter(1, wDocument, Join(st.all_text))>>]
    ELSE st

\* What is read at the path of a file that has been removed from the disk
NoFile == <<"no file">>

\* An exception that is not raised by the document: the log write of line
\* 155 failing at a page (fault = page number), the save of lines 251-254
\* failing (SaveFault), the log write of line 257 failing after the save
\* (AfterSaveFault)
NoFault == 0
SaveFault(file) == Len(file) + 1
AfterSaveFault(file) == Len(file) + 2
Faults(file) == 0..AfterSaveFault(file)

\* process_pdf: error tells whether it raises, saved are the chapters
\* committed by lines 252-254, logs the chapter numbers logged as created
process_pdf(file, fault) ==
    IF file = NoFile \/ Len(file) = 0
    THEN [error |-> TRUE, saved |-> <<>>, logs |-> <<>>]
    ELSE IF fault \in 1..Len(file)
    THEN [error |-> TRUE, saved |-> <<>>,
          logs |-> ScanPages(SegmenterStart, file, 1, fault - 1).logs]
    ELSE Bind(ScanPages(SegmenterStart, file, 1, Len(file)), LAMBDA scanned :
         Bind(LastChapter(scanned), LAMBDA ended :
         Bind(Fallback(ended), LAMBDA done :
             IF done.chapters = <<>> \/ fault = SaveFault(file)
             THEN [error |-> TRUE, saved |-> <<>>, logs |-> done.logs]
             ELSE [error |-> fault = AfterSaveFault(file),
                   saved |-> done.chapters, logs |-> done.logs])))

\* The lines and pages documents are made of: a page that is only a titled
\* header, a page of blanks, a page without text and a page with an
\* upper-case header between body lines and an empty line.
lChapter1 == wChapter \o <<" ", "1">>
lChapter2 == wChapter \o <<" ", "2">>
lFoo == <<"F", "o", "o", " ", "b", "a", "r", " ", "b", "a", "z", " ", "q", "u", "x", ".">>
lQuux == <<"Q", "u", "u", "x", " ", "c", "o", "r", "g", "e", " ",
           "g", "r", "a", "u", "l", "t", ".">>
lChapter1Intro == wChapter \o <<" ", "1", ":", " ", "I", "n", "t", "r", "o">>
lSUMMARY == <<"S", "U", "M", "M", "A", "R", "Y">>
lBlank == <<" ", " ">>

PageTexts ==
    { <<lChapter1Intro>>,
      <<lBlank, <<>>>>,
      EmptyText,
      <<lQuux, <<>>, lSUMMARY, lFoo>> }

\* A two-page document: "Chapter 1" and a paragraph, then "Chapter 2" and a
\* paragraph
ExampleFile == << <<lChapter1, lFoo>>, <<lChapter2, lQuux>> >>

\* The documents of up to maxPages pages, and the two-page example
Documents(maxPages) ==
    UNION {[1..n -> PageTexts] : n \in 0..maxPages} \cup {ExampleFile}

\* process_pdf is a function of the file and the fault; its results for the
\* documents of up to MaxPages pages are tabulated
ProcessedDocuments ==
    [k \in {<<file, fault>> : file \in Documents(MaxPages),
                              fault \in 0..(MaxPages + 2)} |->
        process_pdf(k[1], k[2])]

Processed(file, fault) ==
    IF <<file, fault>> \in DOMAIN ProcessedDocuments
    THEN ProcessedDocuments[<<file, fault>>]
    ELSE process_pdf(file, fault)

\* db.add(chapter) for each chapter of the list, under consecutive ids
AddChapters(table, nid, upload_id, list) ==
    [i \in DOMAIN table \cup {nid + k - 1 : k \in DOMAIN list} |->
        IF i \in DOMAIN table THEN table[i]
        ELSE [upload_id |-> upload_id,
              chapter_no |-> list[i - nid + 1].chapter_no,
              title |-> list[i - nid + 1].title,
              content |-> list[i - nid + 1].content]]

\* File names (UploadFile.filename), as character sequences
PdfA == <<"a", ".", "p", "d", "f">>
PdfB == <<"b", ".", "P", "D", "F">>
PdfSlashA == <<"/", "a", ".", "p", "d", "f">>
TxtA == <<"a", ".", "t", "x", "t">>

\* Line 58: filename.lower().endswith('.pdf')
EndsWithPdf(filename) ==
    /\ Len(filename) >= 4
    /\ SubSeq(Lower(filename), Len(filename) - 3, Len(filename)) = <<".", "p", "d", "f">>

\* Line 89: the characters of the name that are alphanumeric or one of
\* ' ', '-', '_', '.'
safe_filename(filename) ==
    SelectSeq(filename, LAMBDA c :
        c \in AsciiUpper \cup AsciiLower \cup AsciiDigits \cup {" ", "-", "_", "."})

\* What open(file_path) reads: the document stored under the name, if any
StoredFile(path) == IF path \in DOMAIN disk THEN disk[path] ELSE NoFile

\* Lines 106-117 of uploads.py: the new uploads row.  file_path is the
\* sanitized name under the upload directory; file is the document the
\* request carried
NewUpload(u, filename, file) ==
    [user_id |-> u, status |-> "processing", file_path |-> safe_filename(filename),
     file |-> file, processing_logs |-> <<>>]

\* POST /uploads: the file is written under its sanitized name (lines
\* 89-98), the upload row is created and the document is processed at once;
\* after a failure the file of that name is removed (lines 160-162)
create_upload(u, filename, file, fault) ==
    IF ~EndsWithPdf(filename)
    THEN /\ last' = Result("create_upload", u, 0, 400)
         /\ UNCHANGED <<genVars, wsVars, now, dbVars, reqs, docVars>>
    ELSE \E r \in {Processed(file, fault)} :
             /\ uploads' = AddRow(uploads, nextUploadId,
                                  [NewUpload(u, filename, file) EXCEPT
                                      !.status = IF r.error THEN "failed" ELSE "completed",
                                      !.processing_logs = r.logs])
             /\ disk' = IF r.error
                        THEN DeleteRow(disk, safe_filename(filename))
                        ELSE AddRow(disk, safe_filename(filename), file)
             /\ nextUploadId' = nextUploadId + 1
             /\ chapters' = AddChapters(chapters, nextChapterId, nextUploadId, r.saved)
             /\ nextChapterId' = nextChapterId + Len(r.saved)
             /\ last' = Result("create_upload", u, nextUploadId,
                               IF r.error THEN 500 ELSE 200)
             /\ UNCHANGED <<genVars, wsVars, now, dbVars, reqs>>

\* The upload of the given id, if the caller owns it
OwnedUpload(u, id) == id \in DOMAIN uploads /\ uploads[id].user_id = u

\* (mutant) process_upload without the check of the status: an upload is
\* processed again whatever its status
process_upload_again(u, id, fault) ==
    IF ~OwnedUpload(u, id)
    THEN /\ last' = Result("process_upload", u, id, 404)
         /\ UNCHANGED <<genVars, wsVars, now, dbVars, reqs, docVars>>
    ELSE \E r \in {Processed(StoredFile(uploads[id].file_path), fault)} :
             /\ uploads' = [uploads EXCEPT ![id] =
                              [@ EXCEPT !.status = IF r.error THEN "failed" ELSE "completed",
                                        !.processing_logs = r.logs]]
             /\ chapters' = AddChapters(chapters, nextChapterId, id, r.saved)
             /\ nextChapterId' = nextChapterId + Len(r.saved)
             /\ last' = Result("process_upload", u, id, IF r.error THEN 500 ELSE 200)
             /\ UNCHANGED <<genVars, wsVars, now, dbVars, reqs, nextUploadId, disk>>

\* POST /uploads/{upload_id}/process
process_upload(u, id, fault) ==
    IF ~OwnedUpload(u, id)
    THEN /\ last' = Result("process_upload", u, id, 404)
         /\ UNCHANGED <<genVars, wsVars, now, dbVars, reqs, docVars>>
    ELSE IF uploads[id].status # "pending"
    THEN /\ last' = Result("process_upload", u, id, 400)
         /\ UNCHANGED <<genVars, wsVars, now, dbVars, reqs, docVars>>
    ELSE \E r \in {Processed(StoredFile(uploads[id].file_path), fault)} :
             /\ uploads' = [uploads EXCEPT ![id] =
                              [@ EXCEPT !.status = IF r.error THEN "failed" ELSE "completed",
                                        !.processing_logs = r.logs]]
             /\ chapters' = AddChapters(chapters, nextChapterId, id, r.saved)
             /\ nextChapterId' = nextChapterId + Len(r.saved)
             /\ last' = Result("process_upload", u, id, IF r.error THEN 500 ELSE 200)
             /\ UNCHANGED <<genVars, wsVars, now, dbVars, reqs, nextUploadId, disk>>

\* ------------------------------------------------------------ Question Synthesizer
\* QuestionGenerator (services/question_generator.py).  What the text
\* analysis (the NLTK tokenizer and tagger, the regular expressions) extracts
\* from a chapter is an input: the sentences of the content
\* (nltk.sent_tokenize), each a sequence of words; the concepts that
\* _extract_generic_concepts finds in the important sentences; the domains
\* that _detect_domain reports.  A text is a sequence of words.

\* ' '.join(analysis['important_sentences']): the sentence of every concept
\* (the argument of line 1171)
tImportant == <<"a", "heap", "is", "a", "tree">>

\* Lines 1153-1158: a concept
Concept(term, context) == [term |-> term, context |-> context, sentence |-> tImportant]

\* The placeholders of the patterns of generic_domain_patterns (lines
\* 332-384), by question type, pattern category and position
generic_domain_patterns ==
    [concept |->
        [definition |-> <<{"concept"}, {"concept"}, {"concept"}>>,
         application |-> <<{"concept"}, {"concept"}, {"concept"}>>,
         analysis |-> <<{"concept"}, {"concept", "related_concept"}, {"concept"}>>],
     process |->
        [steps |-> <<{"process"}, {"process"}, {"process"}>>,
         purpose |-> <<{"process"}, {"process"}, {"process"}>>,
         evaluation |-> <<{"process"}, {"process"}, {"process"}>>],
     analysis |->
        [comparison |-> <<{"concept1", "concept2"}, {"concept1", "concept2"},
                          {"concept1", "concept2"}>>,
         evaluation |-> <<{"concept"}, {"concept"}, {"concept"}>>,
         synthesis |-> <<{"concept1", "concept2"}, {"concept"}, {"concept"}>>]]

\* Line 1185: the question types random.choice draws from
QuestionTypes == {"concept", "relationship", "application"}

\* The random draws of lines 1185-1191: a question type, a category of that
\* type and a pattern of that category.  A type that is no key of
\* generic_domain_patterns raises KeyError at line 1186, before a category
\* is drawn.
PatternDraws ==
    UNION {IF question_type \in DOMAIN generic_domain_patterns
           THEN {<<question_type, pattern_category, pattern>> :
                    pattern_category \in DOMAIN generic_domain_patterns[question_type],
                    pattern \in 1..3}
           ELSE {<<question_type, "", 0>>} : question_type \in QuestionTypes}

\* A QuestionCreateSchema as the generators build it.  designated is the
\* text the generator chose as the correct answer when it assembled the
\* options and method the generating method; neither is a field of the
\* schema.
NewDraft(options, correct_answer, designated, method) ==
    [question_type |-> "multiple_choice", options |-> options,
     correct_answer |-> correct_answer, designated |-> designated, method |-> method]

\* Lines 1239-1244 / 1253-1258: the option text made of a concept
OptionText(concept, pattern_category) ==
    IF pattern_category = "definition" THEN concept.sentence
    ELSE IF pattern_category = "application"
    THEN <<"Using", concept.term, "in", concept.context>>
    ELSE <<"Analysis", "of", concept.term, "in", concept.context>>

\* Line 1249: the concepts with another term
OtherConcepts(concept, all_concepts) ==
    SelectSeq(all_concepts, LAMBDA c : c.term # concept.term)

\* (mutant) the correct answer is appended after the incorrect options
GenericOptionsCorrectLast(concept, pattern_category, all_concepts) ==
    LET other_concepts == OtherConcepts(concept, all_concepts)
    IN  [i \in 1..(IF Len(other_concepts) < 3 THEN Len(other_concepts) ELSE 3) |->
            OptionText(other_concepts[i], pattern_category)]
        \o <<OptionText(concept, pattern_category)>>

\* _generate_generic_options: the correct answer, then the texts of up to
\* three concepts with another term
GenericOptions(concept, pattern_category, all_concepts) ==
    LET other_concepts == OtherConcepts(concept, all_concepts)
    IN  <<OptionText(concept, pattern_category)>>
        \o [i \in 1..(IF Len(other_concepts) < 3 THEN Len(other_concepts) ELSE 3) |->
              OptionText(other_concepts[i], pattern_category)]

\* Lines 1183-1225: the draft made for one concept under one random draw: a
\* list of one question, or the empty list when the draw raises (KeyError of
\* the type at line 1186, KeyError of str.format at lines 1201-1206), when no
\* related concept exists (line 1199) or when fewer than 4 options were made
GenericDraft(concept, concepts, draw) ==
    IF draw[1] \notin DOMAIN generic_domain_patterns
    THEN <<>>
    ELSE LET placeholders == generic_domain_patterns[draw[1]][draw[2]][draw[3]]
             related == draw[2] \in {"comparison", "evaluation", "synthesis"}
         IN  IF related /\ OtherConcepts(concept, concepts) = <<>>
             THEN <<>>
             ELSE IF ~(placeholders \subseteq
                         (IF related THEN {"concept1", "concept2"} ELSE {"concept"}))
             THEN <<>>
             ELSE Bind(GenericOptions(concept, draw[2], concepts), LAMBDA options :
                      IF Len(options) >= 4
                      THEN <<NewDraft(options, sA, OptionText(concept, draw[2]), "generic")>>
                      ELSE <<>>)

\* The loop of lines 1182-1225 over concepts[k..n]: the lists it can build
RECURSIVE GenericLoop(_, _, _)
GenericLoop(concepts, k, n) ==
    IF k > n
    THEN {<<>>}
    ELSE Bind(GenericLoop(concepts, k + 1, n), LAMBDA rest :
            {GenericDraft(concepts[k], concepts, draw) \o tail :
                draw \in PatternDraws, tail \in rest})

\* _generate_generic_questions: the lists it can return
generate_generic_questions(concepts, count) ==
    IF concepts = <<>>
    THEN {<<>>}
    ELSE GenericLoop(concepts, 1, IF count < Len(concepts) THEN count ELSE Len(concepts))

\* random.sample(population, k): k elements at distinct positions, in any order
Sample(population, k) ==
    {[i \in 1..k |-> population[f[i]]] :
        f \in {g \in [1..k -> DOMAIN population] : \A i, j \in 1..k : g[i] = g[j] => i = j}}

\* Lines 1798-1826: the drafts that can be made for one sentence
BasicDraft(sentence, sentences) ==
    IF Len(sentence) < 5
    THEN {<<>>}
    ELSE Bind(SelectSeq(sentences, LAMBDA other : other # sentence), LAMBDA other_sentences :
            {IF 1 + Len(sample) >= 4
             THEN <<NewDraft(<<sentence>> \o sample, sA, sentence, "basic")>>
             ELSE <<>> :
                sample \in Sample(other_sentences,
                                  IF Len(other_sentences) < 3 THEN Len(other_sentences) ELSE 3)})

RECURSIVE BasicLoop(_, _, _)
BasicLoop(sentences, k, n) ==
    IF k > n
    THEN {<<>>}
    ELSE Bind(BasicLoop(sentences, k + 1, n), LAMBDA rest :
            {head \o tail : head \in BasicDraft(sentences[k], sentences), tail \in rest})

\* _generate_basic_questions: the lists it can return
generate_basic_questions(sentences, count) ==
    BasicLoop(sentences, 1, IF count < Len(sentences) THEN count ELSE Len(sentences))

\* _generate_language_questions and _generate_domain_questions (lines
\* 412-474, 1263-1316): every question they make passes its options to
\* QuestionCreateSchema as a dict (lines 613-618, 732-737, 879-884,
\* 1076-1082, 1303-1306), which the schema (options: Optional[List[str]])
\* rejects; the error is caught (lines 472, 1009, 1091, 1312), so no question
\* comes from a domain and the list extended at line 1006 stays empty.
generate_domain_questions(domain, count) == <<>>

\* random.shuffle: the orders of a list
Shuffle(list) ==
    {[i \in DOMAIN list |-> list[p[i]]] :
        p \in {q \in [DOMAIN list -> DOMAIN list] : \A i, j \in DOMAIN list : q[i] = q[j] => i = j}}

\* list[:n]
Take(list, n) == SubSeq(list, 1, IF n < Len(list) THEN n ELSE Len(list))

\* QuestionGenerator.generate_questions: the lists it can return for a
\* chapter (lines 963-1029)
generate_questions(chapter, num_questions) ==
    IF chapter.sentences = <<>>
    THEN {<<>>}
    ELSE Bind(generate_generic_questions(chapter.concepts, num_questions), LAMBDA generic :
         Bind(IF chapter.domains = {}
              THEN generic
              ELSE {generate_domain_questions(domain, num_questions) :
                       domain \in chapter.domains}, LAMBDA first :
         Bind(IF <<>> \in first THEN (first \ {<<>>}) \cup generic ELSE first, LAMBDA second :
         Bind(IF <<>> \in second
              THEN (second \ {<<>>})
                   \cup generate_basic_questions(chapter.sentences, num_questions)
              ELSE second, LAMBDA questions :
             UNION {{Take(shuffled, num_questions) : shuffled \in Shuffle(list)} :
                       list \in questions}))))

\* No generator has run
NoDrafts == [generator |-> "none", questions |-> <<>>]

\* A call of QuestionGenerator.generate_questions
run_question_generator(chapter, num_questions) ==
    /\ \E questions \in generate_questions(chapter, num_questions) :
          drafts' = [generator |-> "default", chapter |-> chapter,
                     num_questions |-> num_questions, questions |-> questions]
    /\ last' = Result("QuestionGenerator.generate_questions", 0, num_questions, 200)
    /\ UNCHANGED <<db_questions, wsVars, docVars, now, dbVars, reqs>>

\* ---------------------------------------------------- ChatGPTQuestionGenerator
\* services/chatgpt_question_generator.py.  The text the language model
\* returns is an input: a list of lines, each a sequence of characters.

\* str.startswith
StartsWith(line, prefix) ==
    /\ Len(line) >= Len(prefix)
    /\ SubSeq(line, 1, Len(prefix)) = prefix

\* line[n:]
From(line, n) == SubSeq(line, n + 1, Len(line))

pQ == <<"Q", ":">>
pOptions == {<<"A", ")">>, <<"B", ")">>, <<"C", ")">>, <<"D", ")">>}
pCorrect == <<"C", "o", "r", "r", "e", "c", "t", ":">>
pExplanation == <<"E", "x", "p", "l", "a", "n", "a", "t", "i", "o", "n", ":">>

\* dict[key] = value
SetKey(dict, key, value) ==
    [k \in DOMAIN dict \cup {key} |-> IF k = key THEN value ELSE dict[k]]

\* Line 73: the parser before the first line; raised records a KeyError
ParserStart == [questions |-> <<>>, current_question |-> <<>>, raised |-> FALSE]

\* Lines 75-95: one line of the response
ParseLine(parser, raw) ==
    Bind(Strip(raw), LAMBDA line :
        IF parser.raised \/ line = <<>>
        THEN parser
        ELSE IF StartsWith(line, pQ)
        THEN [parser EXCEPT
                !.questions = IF DOMAIN parser.current_question # {}
                              THEN Append(@, parser.current_question) ELSE @,
                !.current_question =
                    [question_text |-> Strip(From(line, 2)), options |-> <<>>,
                     question_type |-> "multiple_choice"]]
        ELSE IF \E prefix \in pOptions : StartsWith(line, prefix)
        THEN IF "options" \in DOMAIN parser.current_question
             THEN [parser EXCEPT
                     !.current_question =
                         SetKey(@, "options", Append(@.options, Strip(From(line, 2))))]
             ELSE [parser EXCEPT !.raised = TRUE]
        ELSE IF StartsWith(line, pCorrect)
        THEN [parser EXCEPT
                !.current_question = SetKey(@, "correct_answer", Strip(From(line, 8)))]
        ELSE IF StartsWith(line, pExplanation)
        THEN [parser EXCEPT
                !.current_question = SetKey(@, "explanation", Strip(From(line, 12)))]
        ELSE parser)

RECURSIVE ParseLines(_, _, _)
ParseLines(parser, lines, i) ==
    IF i > Len(lines)
    THEN parser
    ELSE ParseLines(ParseLine(parser, lines[i]), lines, i + 1)

\* ChatGPTQuestionGenerator._parse_response: the list of question dicts, or
\* raised when a line raises KeyError
parse_response(response) ==
    Bind(ParseLines(ParserStart, response, 1), LAMBDA parser :
        [raised |-> parser.raised,
         questions |-> IF DOMAIN parser.current_question # {}
                       THEN Append(parser.questions, parser.current_question)
                       ELSE parser.questions])

\* ------------------------------------------------------- generate endpoints
\* The attribute current_chapter_id of the object get_current_user returns
\* (core/deps.py): a chapter, or NoAttribute when the object has no such
\* attribute and reading it raises AttributeError.  The User model
\* (models/user.py) declares no such column.
NoAttribute == 0
CurrentChapterIds == Chapters \cup {NoAttribute}

\* The call of the language model fails
ApiError == <<"error">>

\* Lines 54-61 of api/questions.py: the keys read from a question dict
RequiredKeys == {"question_text", "options", "correct_answer", "question_type"}

\* Lines 54-61: the row made of a question dict
QuestionRow(q, chapter_id) ==
    [question_text |-> q.question_text, options |-> q.options,
     correct_answer |-> q.correct_answer, question_type |-> q.question_type,
     difficulty |-> "medium", chapter_id |-> chapter_id]

\* POST /questions/generate (api/questions.py, lines 27-72).  The default
\* generator is called with the keywords content= and difficulty=, which
\* QuestionGenerator.generate_questions does not take (TypeError).
generate_questions_endpoint(u, generator_type, response, current_chapter_id) ==
    /\ IF generator_type # "chatgpt" \/ response = ApiError
       THEN /\ last' = Result("generate_questions", u, 0, 500)
            /\ UNCHANGED genVars
       ELSE LET parsed == parse_response(response)
            IN IF parsed.raised
               THEN /\ last' = Result("generate_questions", u, 0, 500)
                    /\ UNCHANGED genVars
               ELSE /\ drafts' = [generator |-> "chatgpt", response |-> response,
                                  questions |-> parsed.questions]
                    /\ IF \/ \E i \in DOMAIN parsed.questions :
                                ~(RequiredKeys \subseteq DOMAIN parsed.questions[i])
                          \/ parsed.questions # <<>> /\ current_chapter_id = NoAttribute
                       THEN /\ last' = Result("generate_questions", u, 0, 500)
                            /\ UNCHANGED db_questions
                       ELSE /\ last' = Result("generate_questions", u, 0, 200)
                            /\ db_questions' =
                                  db_questions
                                  \o [i \in DOMAIN parsed.questions |->
                                        QuestionRow(parsed.questions[i], current_chapter_id)]
    /\ UNCHANGED <<wsVars, docVars, now, dbVars, reqs>>

\* POST /chapters/{chapter_id}/generate-questions (api/chapters.py, lines
\* 140-199).  generate_questions is a coroutine function and is called
\* without await (line 169), so the loop of line 173 iterates a coroutine
\* object and raises TypeError; a chapter that is not found raises
\* HTTPException(404) inside the try.  Both are caught at line 194.
generate_chapter_questions(u, chapter_id, num_questions) ==
    /\ last' = Result("generate_chapter_questions", u, chapter_id, 500)
    /\ UNCHANGED <<genVars, wsVars, docVars, now, dbVars, reqs>>

\* ------------------------------------------------------------ ConnectionManager
\* services/websocket_manager.py.  A websocket is a number; broken holds the
\* websockets whose send_text raises; received counts the messages a
\* websocket was sent.
WebSockets == 1..MaxSockets
SocketUploads == 1..2

\* list.remove(x): the list without the first x
Remove(list, x) ==
    LET i == CHOOSE k \in DOMAIN list : list[k] = x /\ \A j \in 1..(k - 1) : list[j] # x
    IN  SubSeq(list, 1, i - 1) \o SubSeq(list, i + 1, Len(list))

\* The elements of a list
Elements(list) == {list[i] : i \in DOMAIN list}

\* The upload ids a websocket is registered under
RegisteredUnder(websocket) ==
    {id \in DOMAIN active_connections : websocket \in Elements(active_connections[id])}

\* ConnectionManager.connect (lines 13-19)
connect(websocket, upload_id) ==
    /\ active_connections' =
          AddRow(active_connections, upload_id,
                 (IF upload_id \in DOMAIN active_connections
                  THEN active_connections[upload_id] ELSE <<>>) \o <<websocket>>)
    /\ last' = Result("connect", websocket, upload_id, 200)
    /\ UNCHANGED <<broken, received, genVars, docVars, now, dbVars, reqs>>

\* What disconnect leaves of the connections (lines 22-25): the list of the
\* upload without the websocket, the key deleted when the list is empty
Disconnected(connections, websocket, upload_id) ==
    IF upload_id \notin DOMAIN connections
    THEN connections
    ELSE IF Remove(connections[upload_id], websocket) = <<>>
    THEN DeleteRow(connections, upload_id)
    ELSE [connections EXCEPT ![upload_id] = Remove(@, websocket)]

\* ConnectionManager.disconnect (lines 21-26); list.remove raises ValueError
\* for a websocket that is not in the list
disconnect(websocket, upload_id) ==
    /\ IF upload_id \in DOMAIN active_connections
          /\ websocket \notin Elements(active_connections[upload_id])
       THEN /\ last' = Result("disconnect", websocket, upload_id, 500)
            /\ UNCHANGED active_connections
       ELSE /\ last' = Result("disconnect", websocket, upload_id, 200)
            /\ active_connections' = Disconnected(active_connections, websocket, upload_id)
    /\ UNCHANGED <<broken, received, genVars, docVars, now, dbVars, reqs>>

\* The loop of lines 32-39 from position i of the list object that
\* active_connections[upload_id] held when the loop began: the iterator
\* moves to the next position of the list whatever disconnect removed from it
RECURSIVE SendLoop(_, _, _)
SendLoop(connections, i, sent) ==
    IF i > Len(connections)
    THEN [connections |-> connections, sent |-> sent]
    ELSE IF connections[i] \in broken
    THEN SendLoop(Remove(connections, connections[i]), i + 1, sent)
    ELSE SendLoop(connections, i + 1, sent \o <<connections[i]>>)

\* ConnectionManager.send_logs (lines 28-39)
send_logs(upload_id) ==
    /\ IF upload_id \in DOMAIN active_connections
       THEN LET loop == SendLoop(active_connections[upload_id], 1, <<>>)
            IN /\ active_connections' =
                     IF loop.connections = <<>>
                     THEN DeleteRow(active_connections, upload_id)
                     ELSE [active_connections EXCEPT ![upload_id] = loop.connections]
               /\ received' = [w \in WebSockets |->
                                 IF w \in Elements(loop.sent)
                                 THEN received[w] + 1 ELSE received[w]]
       ELSE UNCHANGED <<active_connections, received>>
    /\ last' = Result("send_logs", 0, upload_id, 200)
    /\ UNCHANGED <<broken, genVars, docVars, now, dbVars, reqs>>

\* ConnectionManager.cleanup (lines 41-53)
cleanup ==
    /\ active_connections' = [i \in {} |-> 0]
    /\ last' = Result("cleanup", 0, 0, 200)
    /\ UNCHANGED <<broken, received, genVars, docVars, now, dbVars, reqs>>

\* The peer of a websocket goes away: from now on its send_text raises
peer_closes(websocket) ==
    /\ broken' = broken \cup {websocket}
    /\ last' = Result("peer_closes", websocket, 0, 0)
    /\ UNCHANGED <<active_connections, received, genVars, docVars, now, dbVars, reqs>>

\* No generator has run, no question was generated, nobody is connected
Quiet ==
    /\ drafts = NoDrafts
    /\ db_questions = <<>>
    /\ active_connections = [i \in {} |-> 0]
    /\ broken = {}
    /\ received = [w \in WebSockets |-> 0]

\* ------------------------------------------------------------ specification
EmptyTable == [i \in {} |-> 0]

\* No document has been uploaded
NoDocuments ==
    /\ uploads = EmptyTable
    /\ nextUploadId = 1
    /\ chapters = EmptyTable
    /\ nextChapterId = 1
    /\ disk = EmptyTable
    /\ Quiet

Init ==
    /\ now = 0
    /\ recs = EmptyTable
    /\ nextRecId = 1
    /\ sessions = EmptyTable
    /\ nextSessionId = 1
    /\ attempts = EmptyTable
    /\ nextAttemptId = 1
    /\ reqs = [r \in Requests |-> IdleRequest]
    /\ NoDocuments
    /\ last = Result("none", 0, 0, 0)

Batches(maxBatch) == UNION {[1..n -> QuizQuestions] : n \in 0..maxBatch}

QuestionIds == QuizQuestions \cup {MissingQuestion}

\* The model's bounds on the clock and on the autoincrement ids
Bounded(maxTime, maxRec, maxSession, maxAttempt) ==
    /\ now' <= maxTime
    /\ nextRecId' <= maxRec + 1
    /\ nextSessionId' <= maxSession + 1
    /\ nextAttemptId' <= maxAttempt + 1

\* The handlers with their inputs: the authenticated caller and the request
CompleteReview(users, maxRec) ==
    \E u \in users, id \in 1..maxRec, d \in 0..MaxDrift : complete_review(u, id, d)

SkipReview(users, maxRec) == \E u \in users, id \in 1..maxRec : skip_review(u, id)

CreateReviewRecommendations(users, maxSession, maxBatch) ==
    \E u \in users, sid \in 1..maxSession, qids \in Batches(maxBatch) :
        create_review_recommendations(u, sid, qids)

SubmitAnswer(users, answers) ==
    \E u \in users, q \in QuestionIds, ans \in answers : submit_answer(u, q, ans)

CompleteExamSession(users) == \E u \in users, c \in Chapters : complete_exam_session(u, c)

CreateExamSession(users, maxScore) ==
    \E u \in users, c \in Chapters, score \in 0..maxScore, total \in 0..maxScore :
        create_exam_session(u, c, score, total)

\* ---- the review scheduler on its own.  The reviewer (user 1) and another
\* user (user 2) each own a finished exam session, as left by
\* create_exam_session, and the other user has created a recommendation for
\* question 1; from there on only the reviewer makes requests.
ReviewUsers == 1..1
OtherUser == 2

InitReview ==
    /\ now = 0
    /\ recs = 1 :> NewRec(OtherUser, 1, 0)
    /\ nextRecId = 2
    /\ sessions = [i \in ReviewUsers \cup {OtherUser} |->
                     [user_id |-> i, chapter_id |-> 1, score |-> 0,
                      total_questions |-> 1, correct_answers |-> 0,
                      completed_at |-> 0]]
    /\ nextSessionId = 3
    /\ attempts = EmptyTable
    /\ nextAttemptId = 1
    /\ reqs = [r \in Requests |-> IdleRequest]
    /\ NoDocuments
    /\ last = Result("none", 0, 0, 0)

ReviewBounds == Bounded(MaxTime, MaxRecId + 1, 2, 0)

RvComplete == CompleteReview(ReviewUsers, MaxRecId + 1) /\ ReviewBounds
RvSkip == SkipReview(ReviewUsers, MaxRecId + 1) /\ ReviewBounds
RvCreate == CreateReviewRecommendations(ReviewUsers, 3, MaxBatch) /\ ReviewBounds
RvTick == Tick /\ ReviewBounds

NextReview ==
    \/ RvComplete
    \/ RvSkip
    \/ RvCreate
    \/ RvTick

SpecReview == InitReview /\ [][NextReview]_vars

\* ---- answer submission and exam sessions, requests one at a time (the
\* clock is not advanced: no handler here compares timestamps).  Another user
\* has answered question 2 before and so has an active session for its
\* chapter; from there on only user 1 makes requests.
ExamUsers == 1..1

InitExam ==
    /\ now = 0
    /\ recs = EmptyTable
    /\ nextRecId = 1
    /\ sessions = 1 :> NewSession(OtherUser, QuestionRows[2].chapter_id)
    /\ nextSessionId = 2
    /\ attempts = 1 :> NewAttempt(OtherUser, 2, 1, sB, Grade(QuestionRows[2], sB).is_correct)
    /\ nextAttemptId = 2
    /\ reqs = [r \in Requests |-> IdleRequest]
    /\ NoDocuments
    /\ last = Result("none", 0, 0, 0)

ExamBounds == Bounded(0, 0, MaxSessionId + 1, MaxAttemptId + 1)

ExSubmit == SubmitAnswer(ExamUsers, Answers) /\ ExamBounds
ExComplete == CompleteExamSession(ExamUsers) /\ ExamBounds
ExCreate == CreateExamSession(ExamUsers, MaxScore) /\ ExamBounds

NextExam ==
    \/ ExSubmit
    \/ ExComplete
    \/ ExCreate

SpecExam == InitExam /\ [][NextExam]_vars

\* ---- concurrent submit_answer requests: the handler's database round
\* trips interleave, session completion runs between them
RaceUsers == 1..1
RaceAnswers == {sB}

RaceBounds == Bounded(0, 0, MaxSessionId, SmallAttemptId)

RcQuery ==
    \E r \in Requests, u \in RaceUsers, q \in QuestionIds, ans \in RaceAnswers :
        submit_query(r, u, q, ans)
RcCreateSession == (\E r \in Requests : submit_create_session(r)) /\ RaceBounds
RcCreateAttempt == (\E r \in Requests : submit_create_attempt(r)) /\ RaceBounds
RcComplete == CompleteExamSession(RaceUsers) /\ RaceBounds

NextRace ==
    \/ RcQuery
    \/ RcCreateSession
    \/ RcCreateAttempt
    \/ RcComplete

SpecRace == Init /\ [][NextRace]_vars

\* ---- every handler, requests one at a time, under the small bounds
AllUsers == 1..1
AllAnswers == {sA, sB}

AllBounds == Bounded(SmallTime, SmallRecId, SmallSessionId, SmallAttemptId)

AllCompleteReview == CompleteReview(AllUsers, SmallRecId) /\ AllBounds
AllSkipReview == SkipReview(AllUsers, SmallRecId) /\ AllBounds
AllCreateReviewRecommendations ==
    CreateReviewRecommendations(AllUsers, SmallSessionId, SmallBatch) /\ AllBounds
AllSubmitAnswer == SubmitAnswer(AllUsers, AllAnswers) /\ AllBounds
AllCompleteExamSession == CompleteExamSession(AllUsers) /\ AllBounds
AllCreateExamSession == CreateExamSession(AllUsers, SmallScore) /\ AllBounds
AllTick == Tick /\ AllBounds

Next ==
    \/ AllCompleteReview
    \/ AllSkipReview
    \/ AllCreateReviewRecommendations
    \/ AllSubmitAnswer
    \/ AllCompleteExamSession
    \/ AllCreateExamSession
    \/ AllTick

Spec == Init /\ [][Next]_vars

\* ---- a miss and its review: answer submission, session completion and the
\* creation and skipping of recommendations
MsSubmit == SubmitAnswer(AllUsers, AllAnswers) /\ AllBounds
MsCompleteSession == CompleteExamSession(AllUsers) /\ AllBounds
MsCreate == CreateReviewRecommendations(AllUsers, SmallSessionId, SmallBatch) /\ AllBounds
MsSkip == SkipReview(AllUsers, SmallRecId) /\ AllBounds
MsTick == Tick /\ AllBounds

NextMiss ==
    \/ MsSubmit
    \/ MsCompleteSession
    \/ MsCreate
    \/ MsSkip
    \/ MsTick

SpecMiss == Init /\ [][NextMiss]_vars

\* ---- uploads
CreateUpload(users, filenames, maxPages) ==
    \E u \in users, filename \in filenames :
        IF EndsWithPdf(filename)
        THEN \E file \in Documents(maxPages) :
                \E fault \in Faults(file) : create_upload(u, filename, file, fault)
        ELSE create_upload(u, filename, <<>>, NoFault)

ProcessUpload(users, maxUpload) ==
    \E u \in users, id \in 1..maxUpload, fault \in 0..1 : process_upload(u, id, fault)

\* Another user has uploaded a document of two chapters before ("Chapter 1:
\* Intro", a paragraph, "CHAPTER 2 - Next", two paragraphs); from there on
\* only user 1 makes requests.
UploadUsers == 1..1
OtherFile ==
    << <<lChapter1Intro, lFoo>>,
       <<wCHAPTER \o <<" ", "2", " ", "-", " ", "N", "e", "x", "t">>>>,
       <<lFoo, <<>>, lQuux>> >>

InitUpload ==
    /\ now = 0
    /\ recs = EmptyTable
    /\ nextRecId = 1
    /\ sessions = EmptyTable
    /\ nextSessionId = 1
    /\ attempts = EmptyTable
    /\ nextAttemptId = 1
    /\ reqs = [r \in Requests |-> IdleRequest]
    /\ uploads = 1 :> [NewUpload(OtherUser, PdfB, OtherFile) EXCEPT
                          !.status = "completed",
                          !.processing_logs = process_pdf(OtherFile, NoFault).logs]
    /\ nextUploadId = 2
    /\ chapters = AddChapters(EmptyTable, 1, 1, process_pdf(OtherFile, NoFault).saved)
    /\ nextChapterId = 1 + Len(process_pdf(OtherFile, NoFault).saved)
    /\ disk = safe_filename(PdfB) :> OtherFile
    /\ Quiet
    /\ last = Result("none", 0, 0, 0)

UploadBounds == nextUploadId <= MaxUploads + 1

UpCreate == UploadBounds /\ CreateUpload(UploadUsers, {PdfA, TxtA}, MaxPages)
UpProcess == ProcessUpload(UploadUsers, MaxUploads + 1)

NextUpload ==
    \/ UpCreate
    \/ UpProcess

SpecUpload == InitUpload /\ [][NextUpload]_vars

\* ---- uploads of two users that share the upload directory: the names
\* "a.pdf" and "/a.pdf" are sanitized to the same name, "b.PDF" to another
ShareUsers == 1..2
ShareNames == {PdfA, PdfSlashA, PdfB}

\* A document that is stored as two chapters, one stored as one chapter and
\* one without text
ShareDocuments == {OtherFile, << <<lChapter1Intro>> >>, <<EmptyText>>}

ShCreate ==
    /\ UploadBounds
    /\ \E u \in ShareUsers, filename \in ShareNames, file \in ShareDocuments :
          \E fault \in Faults(file) : create_upload(u, filename, file, fault)
ShProcess == ProcessUpload(ShareUsers, MaxUploads + 1)

NextShare ==
    \/ ShCreate
    \/ ShProcess

SpecShare == Init /\ [][NextShare]_vars

\* ------------------------------------------------- the question generator
\* QuestionGenerator.generate_questions applied to chapters of up to
\* MaxSentences sentences and MaxConcepts concepts.
wA == <<"a", "heap", "is", "a", "tree">>
wShort == <<"see", "below">>
wB == <<"a", "tree", "has", "a", "root">>
wC == <<"a", "graph", "has", "edges", "too">>
wD == <<"a", "stack", "is", "a", "list">>
wE == <<"a", "queue", "is", "a", "list">>
SentencePool == <<wA, wShort, wB, wC, wD, wE>>

ConceptPool ==
    <<Concept("heap", "ordering"), Concept("tree", "searching"), Concept("heap", "memory"),
      Concept("graph", "routing"), Concept("stack", "calls"), Concept("queue", "events")>>

ChapterInputs ==
    {[sentences |-> Take(SentencePool, s), concepts |-> Take(ConceptPool, c), domains |-> d] :
        s \in 0..MaxSentences, c \in 0..MaxConcepts, d \in {{}, {"programming"}}}

\* The generator keeps nothing from one call to the next, so a behaviour
\* holds one call.
SyGenerate ==
    /\ drafts = NoDrafts
    /\ \E chapter \in ChapterInputs, num_questions \in 1..MaxCount :
          run_question_generator(chapter, num_questions)

NextSynth == SyGenerate

SpecSynth == Init /\ [][NextSynth]_vars

\* --------------------------------------------------- the generate endpoints
\* Lines of a response of the language model
lQ == <<"Q", ":", " ", "x", " ">>
lA == <<"A", ")", " ", "a">>
lB == <<" ", "B", ")", "b">>
lC == <<"C", ")", " ", "c">>
lD == <<"D", ")", " ", "d">>
lCorrectB == pCorrect \o <<" ", "B">>
lCorrectE == pCorrect \o <<"E">>
lExplanation == pExplanation \o <<" ", "e">>
lNote == <<"N", "o", "t", "e">>

\* A question as the prompt asks for it; one with three options; one whose
\* letter names no option; one without a Correct line; an option line that
\* follows a line of prose
Blocks ==
    {<<lQ, lA, lB, lC, lD, lCorrectB, lExplanation, lBlank>>,
     <<lQ, lA, lB, lC, lCorrectB>>,
     <<lQ, lA, lB, lC, lD, lCorrectE>>,
     <<lQ, lA, lB, lC, lD>>,
     <<lNote, lA>>}

RECURSIVE Responses(_)
Responses(n) ==
    IF n = 0
    THEN {<<>>}
    ELSE Bind(Responses(n - 1), LAMBDA shorter :
            shorter \cup {response \o block : response \in shorter, block \in Blocks})

GnGenerate ==
    /\ Len(db_questions) < MaxStored
    /\ \E u \in Users, generator_type \in {"default", "chatgpt"},
          response \in Responses(MaxBlocks) \cup {ApiError},
          current_chapter_id \in CurrentChapterIds :
          generate_questions_endpoint(u, generator_type, response, current_chapter_id)

GnChapter ==
    \E u \in Users, chapter_id \in Chapters, num_questions \in 1..MaxCount :
        generate_chapter_questions(u, chapter_id, num_questions)

NextGenerate ==
    \/ GnGenerate
    \/ GnChapter

SpecGenerate == Init /\ [][NextGenerate]_vars

\* ------------------------------------------------- the connection manager
\* A websocket is registered once, by the endpoint that accepted it.
SoConnect ==
    \E websocket \in WebSockets, upload_id \in SocketUploads :
        /\ RegisteredUnder(websocket) = {}
        /\ websocket \notin broken
        /\ connect(websocket, upload_id)

SoDisconnect ==
    \E websocket \in WebSockets, upload_id \in SocketUploads :
        disconnect(websocket, upload_id)

SoSend ==
    /\ \A websocket \in WebSockets : received[websocket] < MaxSends
    /\ \E upload_id \in SocketUploads : send_logs(upload_id)

SoClose ==
    \E websocket \in WebSockets :
        /\ websocket \notin broken
        /\ peer_closes(websocket)

SoCleanup == cleanup

NextSocket ==
    \/ SoConnect
    \/ SoDisconnect
    \/ SoSend
    \/ SoClose
    \/ SoCleanup

SpecSocket == Init /\ [][NextSocket]_vars

\* ---- the life of an attempt: submissions, session completion, and the
\* creation, completion and skipping of reviews (the clock is not advanced:
\* no handler writes a timestamp into an attempt)
AttemptBounds == Bounded(0, SmallRecId, SmallSessionId, MaxAttemptId)

AtSubmit == SubmitAnswer(AllUsers, AllAnswers) /\ AttemptBounds
AtCompleteSession == CompleteExamSession(AllUsers) /\ AttemptBounds
AtCreate == CreateReviewRecommendations(AllUsers, SmallSessionId, SmallBatch) /\ AttemptBounds
AtCompleteReview == CompleteReview(AllUsers, SmallRecId) /\ AttemptBounds
AtSkip == SkipReview(AllUsers, SmallRecId) /\ AttemptBounds

NextAttempt ==
    \/ AtSubmit
    \/ AtCompleteSession
    \/ AtCreate
    \/ AtCompleteReview
    \/ AtSkip

SpecAttempt == Init /\ [][NextAttempt]_vars

\* ---- the answer grader: one user submits any of the answers to any of the
\* questions
GradeUsers == 1..1
GradeAnswers == {sA, sLowA, sLowB, sParis, sLondon, sTrue, sFalse, sRome}

GradeBounds == Bounded(0, 0, MaxGraded, MaxGraded)

GrSubmit ==
    /\ \E u \in GradeUsers, q \in Questions \cup {MissingQuestion}, ans \in GradeAnswers :
          submit_answer(u, q, ans)
    /\ GradeBounds

NextGrade == GrSubmit

SpecGrade == Init /\ [][NextGrade]_vars

\* ====================================================================
\* Properties of the review scheduler (checked under SpecReview)
\* ====================================================================

\* The step just taken was a successful call of op
Ran(op) == last'.op = op /\ last'.status = 200

\* The step just taken was a successful complete_review of a stored
\* recommendation that was at the given stage
CompletedAt(stage) ==
    /\ Ran("complete_review")
    /\ last'.id \in DOMAIN recs
    /\ recs[last'.id].review_stage = stage

\* The interval table of the specification, in days
SpecTable == <<1, 3, 7, 14, 30>>

C3_SkipDeletes ==
    [][(last'.op = "skip_review" /\ OwnedRec(last'.user, last'.id)) =>
         /\ last'.status = 200
         /\ recs' = DeleteRow(recs, last'.id)
         /\ recs[last'.id].review_stage \in 1..5
         /\ UNCHANGED <<now, nextRecId, sessions, attempts>>]_vars

\* A skip has just removed a recommendation while another one, not yet due,
\* is still stored
C3_Witness ==
    /\ last.op = "skip_review"
    /\ last.status = 200
    /\ last.id \notin DOMAIN recs
    /\ \E i \in DOMAIN recs : recs[i].next_review_at > now

\* C28: a complete_review or skip_review call leaves every recommendation
\* of another user as it was, and when its id names no recommendation or a
\* recommendation of another user it ends with 404 and changes no
\* recommendation at all.
C28_ForeignUntouched ==
    [][last'.op \in {"complete_review", "skip_review"} =>
          /\ \A id \in DOMAIN recs :
                recs[id].user_id # last'.user =>
                    id \in DOMAIN recs' /\ recs'[id] = recs[id]
          /\ (last'.id \notin DOMAIN recs \/ recs[last'.id].user_id # last'.user)
             => last'.status = 404 /\ recs' = recs]_vars

\* A complete_review call for a recommendation of another user has just been
\* rejected, and the recommendation is still stored at its stage
C28_Witness ==
    /\ last.op = "complete_review"
    /\ last.status = 404
    /\ last.id \in DOMAIN recs
    /\ recs[last.id].user_id # last.user
    /\ recs[last.id].review_stage = 1

C4_Original ==
    \A id \in DOMAIN recs :
        /\ recs[id].review_stage \in DOMAIN SpecTable
        /\ recs[id].next_review_at =
              recs[id].last_reviewed_at + SpecTable[recs[id].review_stage] * Day

\* C5: a stored recommendation's stage is always in 1..5 and changes only by
\* complete_review raising it by exactly 1 or by create_review_recommendations
\* resetting it to 1.
C5_StageSteps ==
    /\ [](\A id \in DOMAIN recs : recs[id].review_stage \in 1..5)
    /\ [][\A id \in DOMAIN recs \cap DOMAIN recs' :
            recs'[id].review_stage # recs[id].review_stage =>
              \/ /\ recs'[id].review_stage = recs[id].review_stage + 1
                 /\ Ran("complete_review")
                 /\ last'.id = id
              \/ /\ recs'[id].review_stage = 1
                 /\ Ran("create_review_recommendations")
                 /\ \E k \in DOMAIN last'.qids : last'.qids[k] = recs[id].question_id]_vars

\* A recommendation raised to stage 2 or more has been reset to stage 1 by a
\* batch: its last_reviewed_at is later than that of a newer row
C5_Witness ==
    /\ last.op = "create_review_recommendations"
    /\ last.status = 200
    /\ \E i, j \in DOMAIN recs :
          /\ i < j
          /\ recs[i].review_stage = 1
          /\ recs[j].review_stage >= 2
          /\ recs[i].last_reviewed_at > recs[j].last_reviewed_at

NewAttemptId == nextAttemptId

\* The caller of the last step has a recommendation for the question in recs
HasRec(table, u, q) ==
    \E i \in DOMAIN table : table[i].user_id = u /\ table[i].question_id = q

\* C7 (as stated): when a user answers a question incorrectly and has no
\* recommendation for it, a recommendation for that (user, question) is
\* created with stage 1, next_review_at = now + 1 day, last_reviewed_at = now.
C7_Original ==
    [][(/\ Ran("submit_answer")
        /\ NewAttemptId \in DOMAIN attempts'
        /\ ~attempts'[NewAttemptId].is_correct
        /\ ~HasRec(recs, last'.user, last'.id)) =>
          \E i \in DOMAIN recs' :
             recs'[i] = [user_id |-> last'.user, question_id |-> last'.id,
                         last_reviewed_at |-> now, next_review_at |-> now + 1 * Day,
                         review_stage |-> 1]]_vars

\* C7 (amended): submit_answer never creates or changes a recommendation,
\* also for an incorrect answer; a recommendation is created, with stage 1,
\* next_review_at = now + 1 day and last_reviewed_at = now, when the user
\* calls create_review_recommendations with a question id for which the user
\* has no recommendation.
C7_Amended ==
    [][/\ last'.op = "submit_answer" => recs' = recs
       /\ Ran("create_review_recommendations") =>
            \A k \in DOMAIN last'.qids :
               ~HasRec(recs, last'.user, last'.qids[k]) =>
                  \E i \in DOMAIN recs' \ DOMAIN recs :
                     recs'[i] = [user_id |-> last'.user,
                                 question_id |-> last'.qids[k],
                                 last_reviewed_at |-> now,
                                 next_review_at |-> now + 1 * Day,
                                 review_stage |-> 1]]_vars

\* A user has answered a question incorrectly and the following batch has
\* created the recommendation for it
C7_Witness ==
    /\ last.op = "create_review_recommendations"
    /\ last.status = 200
    /\ \E a \in DOMAIN attempts, i \in DOMAIN recs :
          /\ ~attempts[a].is_correct
          /\ attempts[a].user_id = last.user
          /\ recs[i].user_id = last.user
          /\ recs[i].question_id = attempts[a].question_id
          /\ recs[i].review_stage = 1
          /\ recs[i].last_reviewed_at = now

\* The active sessions of a (user, chapter) pair
Active(u, c) ==
    {s \in DOMAIN sessions : /\ sessions[s].user_id = u
                             /\ sessions[s].chapter_id = c
                             /\ sessions[s].completed_at = NULL}

\* C8: when requests run one at a time there is at most one active exam
\* session (completed_at unset) per (user, chapter).
C8_OneActive ==
    \A u \in Users, c \in Chapters : Cardinality(Active(u, c)) <= 1

\* A second session of a (user, chapter) pair has been opened after the
\* first one was completed, and a submission has been attached to it
C8_Witness ==
    \E s, t \in DOMAIN sessions, a \in DOMAIN attempts :
        /\ s # t
        /\ sessions[s].user_id = sessions[t].user_id
        /\ sessions[s].chapter_id = sessions[t].chapter_id
        /\ sessions[s].completed_at # NULL
        /\ sessions[t].completed_at = NULL
        /\ attempts[a].exam_session_id = t

\* C9 (as stated): every stored exam session has score <= total_questions.
C9_Original ==
    \A s \in DOMAIN sessions : sessions[s].score <= sessions[s].total_questions

Letters == <<sA, <<"B">>, <<"C">>, <<"D">>, sE>>

\* The stored letter of the question indexes one of its options
ValidLetter(question) ==
    \E i \in DOMAIN question.options :
        i \in DOMAIN Letters /\ Letters[i] = question.correct_answer

\* The text of the option at the stored letter's index
OptionAtLetter(question) ==
    question.options[CHOOSE i \in DOMAIN question.options :
                         i \in DOMAIN Letters /\ Letters[i] = question.correct_answer]

\* The stored attempts on questions of one type
AttemptsOn(type) ==
    {a \in DOMAIN attempts : QuestionRows[attempts[a].question_id].question_type = type}

\* C11: for a multiple_choice question whose letter indexes a valid option,
\* the recorded verdict is true exactly when the submission equals the letter
\* or the text of the option at the letter's index.
C11_MultipleChoiceVerdict ==
    \A a \in AttemptsOn("multiple_choice") :
        LET question == QuestionRows[attempts[a].question_id]
        IN  ValidLetter(question) =>
              (attempts[a].is_correct <=>
                 \/ attempts[a].chosen_answer = question.correct_answer
                 \/ attempts[a].chosen_answer = OptionAtLetter(question))

\* The option text has been graded correct and the lower-case letter
\* incorrect on the question whose answer is "A" = "Paris"
C11_Witness ==
    \E a, b \in AttemptsOn("multiple_choice") :
        /\ attempts[a].question_id = 1
        /\ attempts[a].chosen_answer = sParis
        /\ attempts[a].is_correct
        /\ attempts[b].question_id = 1
        /\ attempts[b].chosen_answer = sLowA
        /\ ~attempts[b].is_correct

\* The submission of a true_false question after normalisation: lower-cased,
\* then "a" read as "true" and "b" as "false"
Normalized(chosen_answer) ==
    IF Lower(chosen_answer) = sLowA THEN sLowTrue
    ELSE IF Lower(chosen_answer) = sLowB THEN sLowFalse
    ELSE Lower(chosen_answer)

\* C12: for a true_false question the recorded verdict is true exactly when
\* the normalised submission equals the lower-cased correct_answer; with
\* correct_answer "true" (in any case), "a" is correct and "b" is incorrect.
C12_TrueFalseVerdict ==
    \A a \in AttemptsOn("true_false") :
        LET question == QuestionRows[attempts[a].question_id]
        IN  /\ attempts[a].is_correct <=>
                 Normalized(attempts[a].chosen_answer) = Lower(question.correct_answer)
            /\ Lower(question.correct_answer) = sLowTrue =>
                 /\ attempts[a].chosen_answer = sLowA => attempts[a].is_correct
                 /\ attempts[a].chosen_answer = sLowB => ~attempts[a].is_correct

\* Submission "a" has been graded correct and submission "b" incorrect on
\* the true_false question
C12_Witness ==
    \E a, b \in AttemptsOn("true_false") :
        /\ attempts[a].chosen_answer = sLowA
        /\ attempts[a].is_correct
        /\ attempts[b].chosen_answer = sLowB
        /\ ~attempts[b].is_correct

\* C13 (as stated): for a short_answer question the recorded verdict is true
\* exactly when the submission equals the correct_answer, ignoring case.
C13_Original ==
    \A a \in AttemptsOn("short_answer") :
        attempts[a].is_correct <=>
            Lower(attempts[a].chosen_answer) =
                Lower(QuestionRows[attempts[a].question_id].correct_answer)

\* C14: submit_answer on a multiple_choice question whose letter does not
\* index an option fails with an error and leaves every table as it was.
C14_BadLetterRecordsNothing ==
    [][(/\ last'.op = "submit_answer"
        /\ last'.id \in Questions
        /\ QuestionRows[last'.id].question_type = "multiple_choice"
        /\ ~ValidLetter(QuestionRows[last'.id])) =>
          /\ last'.status = 500
          /\ UNCHANGED <<recs, sessions, attempts, nextSessionId, nextAttemptId>>]_vars

\* A submission to the question with the out-of-range letter has just failed
\* while the user has an active session and an attempt in it
C14_Witness ==
    /\ last.op = "submit_answer"
    /\ last.status = 500
    /\ last.id = 4
    /\ \E a \in DOMAIN attempts :
          /\ attempts[a].user_id = last.user
          /\ sessions[attempts[a].exam_session_id].completed_at = NULL
          /\ sessions[attempts[a].exam_session_id].chapter_id = QuestionRows[4].chapter_id

\* C15: each successful submit_answer call adds exactly one attempt, and no
\* operation (submission, session completion, review creation, completion or
\* skip) removes a stored attempt or changes its chosen_answer or is_correct.
C15_AttemptsImmutable ==
    [][/\ Ran("submit_answer") =>
            /\ nextAttemptId \notin DOMAIN attempts
            /\ DOMAIN attempts' = DOMAIN attempts \cup {nextAttemptId}
            /\ attempts'[nextAttemptId].user_id = last'.user
            /\ attempts'[nextAttemptId].question_id = last'.id
       /\ ~Ran("submit_answer") => DOMAIN attempts' = DOMAIN attempts
       /\ \A a \in DOMAIN attempts :
            /\ a \in DOMAIN attempts'
            /\ attempts'[a].chosen_answer = attempts[a].chosen_answer
            /\ attempts'[a].is_correct = attempts[a].is_correct]_vars

\* A correct and an incorrect attempt are stored, their session has been
\* completed, and a review created afterwards has just been completed
C15_Witness ==
    /\ last.op = "complete_review"
    /\ last.status = 200
    /\ \E a, b \in DOMAIN attempts :
          /\ attempts[a].is_correct
          /\ ~attempts[b].is_correct
          /\ sessions[attempts[a].exam_session_id].completed_at # NULL

\* ====================================================================
\* Properties of the chapter segmenter and the uploads (checked under
\* SpecUpload)
\* ====================================================================

\* The ids of the chapters stored for an upload
UploadChapters(id) == {c \in DOMAIN chapters : chapters[c].upload_id = id}

\* No line of the document is detected as a chapter header
Headerless(file) ==
    \A p \in DOMAIN file : \A i \in DOMAIN file[p] :
        ~is_chapter_header(Strip(file[p][i]))

\* All the text extracted from the document: the texts of its pages, joined
ExtractedText(file) == Join(SelectSeq(file, LAMBDA text : text # EmptyText))

\* The uploads whose processing has completed
Completed == {id \in DOMAIN uploads : uploads[id].status = "completed"}

\* C16 (as stated): a processed document with non-empty text and no line
\* detected as a header has exactly one chapter, numbered 1, titled
\* "Document", whose content is all the extracted text.
C16_Original ==
    \A id \in Completed :
        (Headerless(uploads[id].file) /\ HasText(ExtractedText(uploads[id].file))) =>
            \E c \in UploadChapters(id) :
                /\ UploadChapters(id) = {c}
                /\ chapters[c].chapter_no = 1
                /\ chapters[c].title = wDocument
                /\ chapters[c].content = ExtractedText(uploads[id].file)

\* C17 (as stated): the two-page document "Chapter 1 / Foo bar baz qux.",
\* "Chapter 2 / Quux corge grault." is stored as exactly two chapters,
\* numbered 1 and 2 in that order, each "Chapter <n>" line being detected as
\* a header.
C17_Original ==
    \A id \in Completed :
        uploads[id].file = ExampleFile =>
            /\ is_chapter_header(lChapter1)
            /\ is_chapter_header(lChapter2)
            /\ \E a, b \in UploadChapters(id) :
                  /\ UploadChapters(id) = {a, b}
                  /\ a < b
                  /\ chapters[a].chapter_no = 1
                  /\ chapters[b].chapter_no = 2

\* C18: the chapters stored for an upload carry the sequence numbers 1..k,
\* each exactly once, in the order in which they were stored (document
\* order), whatever mix of header lines, body lines, blank lines, headers
\* without body and text before the first header the document is.
C18_ContiguousNumbers ==
    \A id \in DOMAIN uploads :
        /\ \A n \in 1..Cardinality(UploadChapters(id)) :
              \E c \in UploadChapters(id) :
                  /\ chapters[c].chapter_no = n
                  /\ \A e \in UploadChapters(id) :
                        chapters[e].chapter_no = n => e = c
        /\ \A c, e \in UploadChapters(id) :
              c < e => chapters[c].chapter_no < chapters[e].chapter_no

\* An upload has just been stored as two chapters or more; its document has
\* text before the first header, a blank line and a header without body
C18_Witness ==
    /\ last.op = "create_upload"
    /\ last.status = 200
    /\ Cardinality(UploadChapters(last.id)) >= 2
    /\ uploads[last.id].file = << <<lQuux, <<>>, lSUMMARY, lFoo>>, <<lChapter1Intro>> >>

\* The chapter numbers the segmenter had completed for an upload (its
\* "Creating chapter" log entries)
CompletedNumbers(id) ==
    {uploads[id].processing_logs[i] : i \in DOMAIN uploads[id].processing_logs}

\* C19 (as stated): when the processing of an upload has failed, every
\* chapter the segmenter had completed before the failure is stored for the
\* upload under its sequence number.
C19_Original ==
    \A id \in DOMAIN uploads :
        uploads[id].status = "failed" =>
            \A n \in CompletedNumbers(id) :
                \E c \in UploadChapters(id) : chapters[c].chapter_no = n

\* C20: an upload whose document has no text other than white space is
\* failed and has no chapter stored (in particular none with empty
\* content), and the request that created it ended with an error.
C20_NoTextFails ==
    \A id \in DOMAIN uploads :
        ~HasText(ExtractedText(uploads[id].file)) =>
            /\ uploads[id].status = "failed"
            /\ UploadChapters(id) = {}
            /\ (last.op = "create_upload" /\ last.id = id) => last.status = 500

\* A document of a blank page and a page without text has just been uploaded
C20_Witness ==
    /\ last.op = "create_upload"
    /\ last.id \in DOMAIN uploads
    /\ uploads[last.id].file = << <<lBlank, <<>>>>, EmptyText >>
    /\ uploads[last.id].status = "failed"
    /\ uploads[last.id].file_path \notin DOMAIN disk

Untouched(id) ==
    /\ id \in DOMAIN uploads'
    /\ uploads'[id] = uploads[id]
    /\ (IF uploads[id].file_path \in DOMAIN disk'
        THEN disk'[uploads[id].file_path] ELSE NoFile) = StoredFile(uploads[id].file_path)
    /\ \A c \in DOMAIN chapters' :
          chapters'[c].upload_id = id => c \in DOMAIN chapters /\ chapters'[c] = chapters[c]
    /\ \A c \in UploadChapters(id) : c \in DOMAIN chapters'

\* C21 (as stated): creating, processing or failing one upload never changes
\* the stored file, the status, the processing log or the chapters of a
\* different upload, also when the two files have the same name.
C21_Original ==
    [][\A id \in DOMAIN uploads :
          (last'.op = "process_upload" /\ last'.id = id) \/ Untouched(id)]_vars

\* ------------------------------------------------------------------------
\* Properties of the question generator
\* ------------------------------------------------------------------------

\* The questions of the last run made by one method
MadeBy(method) == SelectSeq(drafts.questions, LAMBDA q : q.method = method)

\* C23: in every list QuestionGenerator.generate_questions can return,
\* whatever it drew at random, the correct_answer of each question is a
\* letter that indexes one of its options and the option at that index is
\* the text the generator designated as the correct answer.
C23_DesignatedAtLetter ==
    drafts.generator = "default" =>
        \A i \in DOMAIN drafts.questions :
            /\ ValidLetter(drafts.questions[i])
            /\ OptionAtLetter(drafts.questions[i]) = drafts.questions[i].designated

\* The generator returned a question made of a concept whose first and last
\* options differ, the first being the designated correct answer
C23_Witness ==
    /\ drafts.generator = "default"
    /\ \E i \in DOMAIN drafts.questions :
          /\ drafts.questions[i].method = "generic"
          /\ drafts.questions[i].options[1] # drafts.questions[i].options[4]
          /\ drafts.questions[i].options[1] = drafts.questions[i].designated

\* C25 (as stated): the options are shuffled after assembly, so for a chapter
\* of which the generator returned a question, each of the four positions is
\* the position of the correct option in a question of some list the
\* generator can return for that chapter.
C25_Original ==
    (drafts.generator = "default" /\ drafts.questions # <<>>) =>
        \A k \in 1..4 :
            \E questions \in generate_questions(drafts.chapter, drafts.num_questions) :
                \E i \in DOMAIN questions :
                    /\ questions[i].correct_answer = Letters[k]
                    /\ questions[i].options[k] = questions[i].designated

\* The sentences a fallback sentence question can be made of: five words or
\* more and three other sentences
Material(sentences) ==
    Len(SelectSeq(sentences, LAMBDA sentence :
            /\ Len(sentence) >= 5
            /\ Len(SelectSeq(sentences, LAMBDA other : other # sentence)) >= 3))

\* C26 (as stated): generate_questions never returns more than num_questions
\* questions, and when the primary categories made at least one but fewer
\* than num_questions questions while the sentences have material for the
\* remainder, it returns num_questions questions.
C26_Original ==
    drafts.generator = "default" =>
        /\ Len(drafts.questions) <= drafts.num_questions
        /\ (/\ Len(MadeBy("generic")) >= 1
            /\ Len(MadeBy("generic")) < drafts.num_questions
            /\ Material(drafts.chapter.sentences)
                   >= drafts.num_questions - Len(MadeBy("generic")))
           => Len(drafts.questions) = drafts.num_questions


C30_Original ==
    [][(last'.op = "send_logs" /\ last'.id \in DOMAIN active_connections) =>
          \A websocket \in Elements(active_connections[last'.id]) \ broken :
              received'[websocket] = received[websocket] + 1]_vars


\* ------------------------------------------------------------------------
\* Properties of completed exam sessions
\* ------------------------------------------------------------------------

====
